---------------------------- MODULE Spec2Model ----------------------------
(***************************************************************************)
(* State-machine model of the IELTS writing-practice client core:          *)
(*   - the daily quota governor          (services/quotaService)           *)
(*   - the two-tier result cache         (services/cacheService)           *)
(*   - the history service + App wiring  (services/historyService, App)    *)
(*   - the grammar normaliser and the service-routing adapter              *)
(*   - the obfuscated credential store   (utils/encryption)                *)
(* Strings are sequences of UTF-16 code units.  The browser's localStorage *)
(* is one partial function shared by every tab; sessionStorage and the     *)
(* module-level quotaCache are per tab.                                    *)
(***************************************************************************)
EXTENDS Integers, Sequences, FiniteSets, TLC

(***************************************************************************)
(* Bounds of the model                                                     *)
(***************************************************************************)
\* number of browser tabs (each with its own module state)
NumTabs == 2
\* the calendar days are 0..MaxDay (Asia/Jakarta dates)
MaxDay == 1
\* stored quotaUsed is explored up to this value
MaxUsed == 4
\* attempts a Firestore transaction makes before it gives up (SDK default: 5)
TxMaxAttempts == 2
\* history documents that can ever be created per run
MaxDocs == 2
\* the list-cache version counter is explored up to this value
MaxVersion == 3
\* longest item list handed to setCachedHistory in the pure-function check
MaxListLen == 11
\* segments in a grammar reply
MaxSegments == 2
\* history entries saved per run where statistics calls may fail and resync
MaxEntries == 3
\* graded entries folded one at a time in the comparison with a recalculation
MaxFold == 8
\* longest list whose every order is tried; longer ones are rotated and reversed
MaxPermuted == 4
\* the minutes of the run the admin dashboard is followed for
MaxClock == 5
\* minutes the clock of another admin session can be ahead
MaxSkew == 1
\* entries saved and entries deleted while the paged history list is followed
MaxSaves == 1
MaxDeletes == 1
\* the longest history list the App is followed to
MaxShown == 22

\* how many times the proxy server's clock is advanced
MaxServerSteps == 2

\* the delay given to throttle, in milliseconds
ThrottleDelay == 3

\* the milliseconds the throttled function is followed for
MaxThrottleTime == 6

\* how many times the limiter's clock is advanced
MaxLimiterSteps == 2

\* how many calls of isAllowed, of all keys together, are answered true
\* before the run ends
MaxGranted == 12

\* how many requests, of all users together, the proxy lets through before
\* the run ends
MaxForwarded == 12

(***************************************************************************)
(* Program constants                                                       *)
(***************************************************************************)
MAX_DEFAULT_QUOTA == 3
MAX_CACHED_ITEMS == 10
PAGE_SIZE == 10

Tabs == 1..NumTabs
Users == {"u1", "u2"}
NoUser == "none"
\* the JavaScript value undefined, where it is passed as a user id
Undefined == "undefined"

(***************************************************************************)
(* Strings: sequences of code units                                        *)
(***************************************************************************)
\* the characters of a user id ("u1" = 117 49, "u2" = 117 50)
UidChars(u) ==
  CASE u = "u1" -> <<117, 49>>
    [] u = "u2" -> <<117, 50>>
    [] u = "user01" -> <<117, 115, 101, 114, 48, 49>>
    [] OTHER -> <<117, 110, 100, 101, 102, 105, 110, 101, 100>>

RECURSIVE XorBits(_, _, _)
XorBits(a, b, n) ==
  IF n = 0 THEN 0
  ELSE (((a % 2) + (b % 2)) % 2) + 2 * XorBits(a \div 2, b \div 2, n - 1)

\* String.fromCharCode(a ^ b): the low 16 bits of the 32-bit xor
XorCharCode(a, b) == XorBits(a % 65536, b % 65536, 16)

\* JavaScript %: the result has the sign of the dividend
JsRem(a, m) == IF a >= 0 THEN a % m ELSE 0 - ((0 - a) % m)

\* hash << 5 on a 32-bit integer
Shl5(h) ==
  LET l == h % 134217728
  IN IF l >= 67108864 THEN ((l - 67108864) * 32 - 2147483647) - 1 ELSE l * 32

RECURSIVE KeyHashFrom(_, _, _)
KeyHashFrom(key, i, hash) ==
  IF i > Len(key) THEN hash
  ELSE KeyHashFrom(key, i + 1, (Shl5(hash) - hash) + key[i])

KeyHash(key) == KeyHashFrom(key, 1, 0)

\* data.map((char, i) => fromCharCode(char ^ ((keyHash + i) % 256))), i from 0
XorWithKey(data, key) ==
  [i \in 1..Len(data) |->
     XorCharCode(data[i], JsRem(KeyHash(key) + (i - 1), 256))]

\* the base64 alphabet: A-Z a-z 0-9 + /
B64Char(v) ==
  IF v < 26 THEN 65 + v
  ELSE IF v < 52 THEN 97 + (v - 26)
  ELSE IF v < 62 THEN 48 + (v - 52)
  ELSE IF v = 62 THEN 43 ELSE 47

IsB64Alpha(c) ==
  \/ (c >= 65 /\ c <= 90)
  \/ (c >= 97 /\ c <= 122)
  \/ (c >= 48 /\ c <= 57)
  \/ c = 43
  \/ c = 47

B64Val(c) ==
  IF c >= 65 /\ c <= 90 THEN c - 65
  ELSE IF c >= 97 /\ c <= 122 THEN (c - 97) + 26
  ELSE IF c >= 48 /\ c <= 57 THEN (c - 48) + 52
  ELSE IF c = 43 THEN 62 ELSE 63

\* btoa throws InvalidCharacterError on a code unit above 255
BtoaThrows(s) == \E i \in 1..Len(s) : s[i] > 255

RECURSIVE Btoa(_)
Btoa(s) ==
  IF Len(s) = 0 THEN <<>>
  ELSE IF Len(s) = 1 THEN
    <<B64Char(s[1] \div 4), B64Char((s[1] % 4) * 16), 61, 61>>
  ELSE IF Len(s) = 2 THEN
    <<B64Char(s[1] \div 4),
      B64Char((s[1] % 4) * 16 + s[2] \div 16),
      B64Char((s[2] % 16) * 4), 61>>
  ELSE
    <<B64Char(s[1] \div 4),
      B64Char((s[1] % 4) * 16 + s[2] \div 16),
      B64Char((s[2] % 16) * 4 + s[3] \div 64),
      B64Char(s[3] % 64)>> \o Btoa(SubSeq(s, 4, Len(s)))

\* atob's forgiving-base64 decode: strip the padding of a full last group
AtobStripped(s) ==
  IF Len(s) % 4 = 0 /\ Len(s) >= 1 /\ s[Len(s)] = 61
  THEN IF Len(s) >= 2 /\ s[Len(s) - 1] = 61
       THEN SubSeq(s, 1, Len(s) - 2)
       ELSE SubSeq(s, 1, Len(s) - 1)
  ELSE s

AtobThrows(s) ==
  LET t == AtobStripped(s)
  IN \/ Len(t) % 4 = 1
     \/ \E i \in 1..Len(t) : ~IsB64Alpha(t[i])

RECURSIVE AtobDecode(_)
AtobDecode(t) ==
  IF Len(t) < 2 THEN <<>>
  ELSE IF Len(t) = 2 THEN
    <<B64Val(t[1]) * 4 + B64Val(t[2]) \div 16>>
  ELSE IF Len(t) = 3 THEN
    <<B64Val(t[1]) * 4 + B64Val(t[2]) \div 16,
      (B64Val(t[2]) % 16) * 16 + B64Val(t[3]) \div 4>>
  ELSE
    <<B64Val(t[1]) * 4 + B64Val(t[2]) \div 16,
      (B64Val(t[2]) % 16) * 16 + B64Val(t[3]) \div 4,
      (B64Val(t[3]) % 4) * 64 + B64Val(t[4])>> \o AtobDecode(SubSeq(t, 5, Len(t)))

Atob(s) == AtobDecode(AtobStripped(s))

\* encryptData: xor with the key stream, then btoa; the plaintext on a throw
encryptData(data, key) ==
  LET encrypted == XorWithKey(data, key)
  IN IF BtoaThrows(encrypted) THEN data ELSE Btoa(encrypted)

\* decryptData: atob, then xor with the key stream; the input on a throw
decryptData(encryptedData, key) ==
  IF AtobThrows(encryptedData) THEN encryptedData
  ELSE XorWithKey(Atob(encryptedData), key)

\* /^[A-Za-z0-9+/=]+$/
LooksBase64(s) ==
  /\ Len(s) >= 1
  /\ \A i \in 1..Len(s) : IsB64Alpha(s[i]) \/ s[i] = 61


(***************************************************************************)
(* State                                                                   *)
(***************************************************************************)
VARIABLES
  today,         \* the current Asia/Jakarta calendar day (getJakartaDate)
  userDoc,       \* Firestore users/{uid}: exists, quotaUsed, lastResetDate
  localStorage,  \* window.localStorage: a partial function key -> string
  currentUser,   \* auth.currentUser of each tab
  quotaCache,    \* the module variable quotaCache of each tab
  op,            \* the asynchronous operation a tab is running
  pc,            \* where that operation is suspended
  snap,          \* the document snapshot the operation read, with its date
  txStale,       \* the document was written after the transaction read it
  txAttempts,    \* attempts of the running transaction
  quotaRet,      \* what the last getQuotaUsed call of a tab returned, and
                 \* whether the stored record was of another day just then
  incOutcome,    \* how the last incrementQuota call of a tab ended
  incBase,       \* quotaUsed as last set by a write that was not an increment
  incOk,         \* incrementQuota calls that resolved since then
  quotaEvents,   \* quotaUpdated events dispatched in a tab by incrementQuota
  incRejected,   \* the last incrementQuota call of a tab rejected to its caller
  lateUser       \* per tab: the signed-out user whose incrementQuota is in flight

quotaVars ==
  <<today, userDoc, currentUser, lateUser, quotaCache, op, pc, snap, txStale,
    txAttempts, quotaRet, incOutcome, incBase, incOk, quotaEvents, incRejected>>

VARIABLES
  sessionStorage, \* window.sessionStorage of each tab
  cacheRet,       \* what the last getCachedHistory call returned, after what,
                  \* and which documents were deleted by then
  detailRet,      \* what the last getCachedHistoryDetail call returned, and where
  lastMut,        \* per user: the mutating list-cache calls made last
  lastSetItems,   \* per user: the list handed to the last setCachedHistory
  detailMut,      \* per tab and record: the mutating detail-cache call made last
  listGen,        \* per user: the store generation the cached list was read at
  ackGen          \* per user: the newest store generation already invalidated

cacheVars ==
  <<sessionStorage, cacheRet, detailRet, lastMut, lastSetItems, detailMut,
    listGen, ackGen>>

VARIABLES
  historyDocs,    \* Firestore history collection: document id -> owner
  nextDocId,      \* the id addDoc gives the next document
  histGen,        \* per user: how many times the user's history changed
  appHistory,     \* App state history of each tab (document ids, newest first)
  historyLoaded,  \* App state historyLoaded of each tab
  hsnap,          \* the query result a tab is waiting for, with its generation
  mutDoc          \* the document and list index a tab's save or delete is about

historyVars ==
  <<historyDocs, nextDocId, histGen, appHistory, historyLoaded, hsnap, mutDoc>>

VARIABLES
  gReq,           \* the grammar check asked for: transport and upstream reply
  gRes,           \* what checkGrammar settled to
  lastRoute,      \* per tab: where the adapter sent its last call
  lastCredOp      \* per user: the credential operation made last

grammarVars == <<gReq, gRes>>

routeVars == <<lastRoute, lastCredOp>>

VARIABLES
  statsDoc,       \* the user's document in user_stats
  statsExact,     \* the averages of statsDoc as exact arithmetic gives them
  statsPc,        \* where the updateUserStats call is
  statsArg,       \* the entry the updateUserStats call is folding in
  createDenied,   \* the store refuses to create documents in user_stats
  attempts,       \* the user's history entries in the order they were saved
  recorded        \* the graded entries the record accounts for, in that order

statsVars ==
  <<statsDoc, statsExact, statsPc, statsArg, createDenied, attempts, recorded>>

VARIABLES
  clock,          \* the wall clock in minutes since local midnight
  userStatsColl,  \* the user_stats collection as the admin dashboard reads it
  adminStats,     \* the document adminStats/global
  adminOp,        \* the admin call under way
  adminPc,        \* where that call is
  adminSeen,      \* the adminStats/global snapshot the call read, and when
  statsSnapshot,  \* the user_stats documents the call read
  adminPayload,   \* the document the call hands to setDoc
  adminWritten,   \* the document the call's setDoc stored
  adminResult     \* what the call resolved to

adminVars ==
  <<clock, userStatsColl, adminStats, adminOp, adminPc, adminSeen,
    statsSnapshot, adminPayload, adminWritten, adminResult>>

VARIABLES
  callOp,         \* the generation or evaluation call made
  callFailure,    \* what is going to fail in it
  callPc,         \* where the call is
  httpResponse,   \* the proxy's response to it
  surfaced        \* the message of the Error the call threw to its caller

callVars == <<callOp, callFailure, callPc, httpResponse, surfaced>>

VARIABLES
  credUid,        \* the user id the credential store was last called for
  credValue,      \* the credential last handed to setUserApiKey for that id
  credStored,     \* setUserApiKey was called last for that id, not remove
  credRead        \* what getUserApiKey returned since then

credVars == <<credUid, credValue, credStored, credRead>>

VARIABLES
  serverNow,      \* Date.now() of the proxy's server instance, milliseconds
  serverSteps,    \* how many times the server's clock has been advanced
  rateLimitStore, \* per user: the window's count and resetTime, or none
  forwarded,      \* per user: the times of the requests let through
  lastStatus      \* per user: the HTTP status of the last answer, 0 if none

gateVars == <<serverNow, serverSteps, rateLimitStore, forwarded, lastStatus>>

VARIABLES
  thrNow,         \* Date.now() of the page that holds the throttled function
  lastRun,        \* throttle: lastRun
  timeoutId,      \* throttle: the timer set last, pending or not, and its due time
  invokedAt       \* the times of the last two invocations of func

throttleVars == <<thrNow, lastRun, timeoutId, invokedAt>>

VARIABLES
  limNow,         \* Date.now() of the page that holds the limiter
  limSteps,       \* how many times that clock has been advanced
  requests,       \* RateLimiter.requests: per key the timestamps kept
  granted,        \* per key: the times at which isAllowed returned true
  limKey,         \* the key of the last call of isAllowed
  limAnswer       \* per key: whether isAllowed was called and its last answer

limiterVars == <<limNow, limSteps, requests, granted, limKey, limAnswer>>

\* the clocked utilities: the proxy's rate limit, throttle, RateLimiter
timingVars == <<gateVars, throttleVars, limiterVars>>

VARIABLES
  storedHistory,  \* the user's history documents in the store, newest first
  nextHistoryId,  \* the id the next saved document gets
  pageHistory,    \* App state history: the ids of the list shown
  pageLoaded,     \* App state historyLoaded
  lastDoc,        \* App state lastDoc: the id of the cursor document, 0 for null
  hasMoreHistory  \* App state hasMoreHistory

pagingVars ==
  <<storedHistory, nextHistoryId, pageHistory, pageLoaded, lastDoc,
    hasMoreHistory>>

VARIABLES
  cacheBefore     \* per tab: quotaCache when its last incrementQuota was called

callerVars == <<cacheBefore>>

\* what the quota governor leaves alone, apart from the caller's observation
nonQuotaCallVars ==
  <<cacheVars, historyVars, statsVars, grammarVars, routeVars, adminVars,
    callVars, credVars, timingVars, pagingVars>>

\* the services beside the writing client's own state
serviceVars ==
  <<adminVars, callVars, credVars, timingVars, pagingVars, callerVars>>

\* everything but the quota governor's own state and localStorage
nonQuotaVars ==
  <<cacheVars, historyVars, statsVars, grammarVars, routeVars, serviceVars>>

\* the quota governor's state apart from the position of a tab's operation
quotaData ==
  <<today, userDoc, currentUser, lateUser, quotaCache, snap, txStale, txAttempts,
    quotaRet, incOutcome, incBase, incOk, quotaEvents, incRejected>>

(***************************************************************************)
(* localStorage keys: <<prefix, name, id>> stands for prefix + name_ + id  *)
(***************************************************************************)
CACHE_PREFIX == "ielts_cache_"

ApiKeyKey(userId) == <<"", "GEMINI_API_KEY", userId>>

getItem(storage, key) == IF key \in DOMAIN storage THEN storage[key] ELSE <<>>

hasItem(storage, key) == key \in DOMAIN storage

setItem(storage, key, value) ==
  [k \in DOMAIN storage \cup {key} |-> IF k = key THEN value ELSE storage[k]]

removeItem(storage, key) ==
  [k \in DOMAIN storage \ {key} |-> storage[k]]

\* secureSetItem: the stored text of value for this user
secureSetItem(storage, key, value, userId) ==
  setItem(storage, key, encryptData(value, UidChars(userId)))

\* secureGetItem: <<>> stands for null; an empty stored string reads as null
secureGetItem(storage, key, userId) ==
  IF ~hasItem(storage, key) \/ Len(storage[key]) = 0 THEN <<>>
  ELSE IF LooksBase64(storage[key])
       THEN decryptData(storage[key], UidChars(userId))
       ELSE storage[key]

getUserApiKey(storage, userId) ==
  secureGetItem(storage, ApiKeyKey(userId), userId)

\* !!getUserApiKey(userId): a non-empty string
isUsingCustomApiKey(storage, userId) ==
  Len(getUserApiKey(storage, userId)) > 0

(***************************************************************************)
(* Quota governor                                                          *)
(***************************************************************************)
NoDoc == [exists |-> FALSE, quotaUsed |-> 0, lastResetDate |-> -1]

NoCache == [userId |-> NoUser, used |-> 0]

NoSnap == [doc |-> NoDoc, date |-> 0]

NoRet == [called |-> FALSE, val |-> 0, stale |-> FALSE]

\* shouldResetQuota: no date recorded (-1), or another day than today
shouldResetQuota(lastResetDate, currentDate) ==
  IF lastResetDate = -1 THEN TRUE ELSE currentDate # lastResetDate

\* the stored record is from another day than today
StoredStale(u) ==
  userDoc[u].exists /\ shouldResetQuota(userDoc[u].lastResetDate, today)

CacheHit(t, userId) ==
  quotaCache[t] # NoCache /\ quotaCache[t].userId = userId

\* quotaCache?.used || 0
CachedUsedOrZero(t) == IF quotaCache[t] = NoCache THEN 0 ELSE quotaCache[t].used

\* getCachedQuota
getCachedQuota(t) == CachedUsedOrZero(t)

\* hasQuotaRemaining with the comparison off by one
hasQuotaRemainingAtCap(used) == MAX_DEFAULT_QUOTA - used >= 0

\* hasQuotaRemaining on a value getQuotaUsed returned
hasQuotaRemaining(used) == MAX_DEFAULT_QUOTA - used > 0

\* canMakeRequest when the quota cache answers (no store read)
canMakeRequestCached(t) ==
  IF isUsingCustomApiKey(localStorage, currentUser[t]) THEN TRUE
  ELSE hasQuotaRemaining(quotaCache[t].used)

\* every transaction that read this user's document is now out of date
MarkStale(t, u) ==
  txStale' = [x \in Tabs |->
                IF x # t /\ currentUser[x] = u /\ pc[x] = "tx_commit"
                THEN TRUE ELSE txStale[x]]

Idle(t) == pc[t] = "idle"

\* the value a getQuotaUsed call resolves to, and what its caller does next:
\* QuotaIndicator shows it; handleGenerate goes on only with quota left; after
\* the display's read at mount, initializeQuota is still to be answered
ReturnQuota(t, who, val, stale) ==
  /\ quotaRet' = [quotaRet EXCEPT ![t] =
                    [called |-> TRUE, val |-> val, stale |-> stale]]
  /\ IF who = "generate" /\ hasQuotaRemaining(val)
     THEN pc' = [pc EXCEPT ![t] = "gen"] /\ op' = [op EXCEPT ![t] = who]
     ELSE IF who = "mount"
     THEN pc' = [pc EXCEPT ![t] = "get"] /\ op' = [op EXCEPT ![t] = "init"]
     ELSE pc' = [pc EXCEPT ![t] = "idle"] /\ op' = [op EXCEPT ![t] = "none"]


\* a getQuotaUsed call whose cache misses: the getDoc is awaited
BeginQuotaRead(t, who) ==
  /\ op' = [op EXCEPT ![t] = who]
  /\ pc' = [pc EXCEPT ![t] = "get"]
  /\ quotaRet' = [quotaRet EXCEPT ![t] =
                    [called |-> FALSE, val |-> 0, stale |-> FALSE]]

\* time passes: the Jakarta date changes
DayTick ==
  /\ today < MaxDay
  /\ today' = today + 1
  /\ UNCHANGED <<userDoc, localStorage, currentUser, lateUser, quotaCache, op, pc, snap,
                 txStale, txAttempts, quotaRet, incOutcome, incBase, incOk,
                 quotaEvents, incRejected>>
  /\ UNCHANGED nonQuotaVars

\* the page is (re)loaded: module state starts empty, App's effect calls
\* initializeQuota for the signed-in user and the quota display calls
\* getQuotaUsed; "mount": the display's read is answered first
PageLoad(t) ==
  /\ Idle(t)
  /\ currentUser[t] # NoUser
  /\ quotaCache' = [quotaCache EXCEPT ![t] = NoCache]
  /\ \E first \in {"init", "mount"} : op' = [op EXCEPT ![t] = first]
  /\ pc' = [pc EXCEPT ![t] = "get"]
  /\ txAttempts' = [txAttempts EXCEPT ![t] = 0]
  /\ quotaRet' = [quotaRet EXCEPT ![t] = NoRet]
  /\ incOutcome' = [incOutcome EXCEPT ![t] = "none"]
  /\ quotaEvents' = [quotaEvents EXCEPT ![t] = FALSE]
  /\ incRejected' = [incRejected EXCEPT ![t] = FALSE]
  /\ UNCHANGED <<today, userDoc, localStorage, currentUser, lateUser, snap, txStale,
                 incBase, incOk>>
  /\ UNCHANGED nonQuotaVars

\* initializeQuota, the getDoc resolved
InitializeQuotaRead(t) ==
  LET u == currentUser[t]
      d == userDoc[u]
  IN /\ pc[t] = "get" /\ op[t] = "init"
     /\ IF ~d.exists \/ shouldResetQuota(d.lastResetDate, today)
        THEN /\ snap' = [snap EXCEPT ![t] = [doc |-> d, date |-> today]]
             /\ pc' = [pc EXCEPT ![t] = "write"]
             /\ UNCHANGED <<quotaCache, op>>
        ELSE /\ quotaCache' = [quotaCache EXCEPT ![t] =
                                 [userId |-> u, used |-> d.quotaUsed]]
             /\ pc' = [pc EXCEPT ![t] = "idle"]
             /\ op' = [op EXCEPT ![t] = "none"]
             /\ UNCHANGED snap
     /\ UNCHANGED <<today, userDoc, localStorage, currentUser, lateUser, txStale,
                    txAttempts, quotaRet, incOutcome, incBase, incOk,
                    quotaEvents, incRejected>>
     /\ UNCHANGED nonQuotaVars

\* initializeQuota, the setDoc (no document was read) or the updateDoc (a
\* document of another day was read) resolved
InitializeQuotaWrite(t) ==
  LET u == currentUser[t]
  IN /\ pc[t] = "write" /\ op[t] = "init"
     /\ userDoc' = [userDoc EXCEPT ![u] =
                      [exists |-> TRUE, quotaUsed |-> 0,
                       lastResetDate |-> snap[t].date]]
     /\ incBase' = [incBase EXCEPT ![u] = 0]
     /\ incOk' = [incOk EXCEPT ![u] = 0]
     /\ MarkStale(t, u)
     /\ quotaCache' = [quotaCache EXCEPT ![t] = [userId |-> u, used |-> 0]]
     /\ pc' = [pc EXCEPT ![t] = "idle"]
     /\ op' = [op EXCEPT ![t] = "none"]
     /\ snap' = [snap EXCEPT ![t] = NoSnap]
     /\ UNCHANGED <<today, localStorage, currentUser, lateUser, txAttempts, quotaRet,
                    incOutcome, quotaEvents, incRejected>>
     /\ UNCHANGED nonQuotaVars

\* initializeQuota, a store call rejected: the catch block
InitializeQuotaError(t) ==
  /\ pc[t] \in {"get", "write"} /\ op[t] = "init"
  /\ quotaCache' = [quotaCache EXCEPT ![t] =
                      [userId |-> currentUser[t], used |-> 0]]
  /\ pc' = [pc EXCEPT ![t] = "idle"]
  /\ op' = [op EXCEPT ![t] = "none"]
  /\ snap' = [snap EXCEPT ![t] = NoSnap]
  /\ UNCHANGED <<today, userDoc, localStorage, currentUser, lateUser, txStale,
                 txAttempts, quotaRet, incOutcome, incBase, incOk, quotaEvents, incRejected>>
  /\ UNCHANGED nonQuotaVars

\* getQuotaUsed called by the quota display (QuotaIndicator, GuidelineModal)
getQuotaUsed(t) ==
  LET u == currentUser[t]
  IN /\ Idle(t)
     /\ u # NoUser
     /\ IF CacheHit(t, u)
        THEN ReturnQuota(t, "indicator", quotaCache[t].used, StoredStale(u))
        ELSE BeginQuotaRead(t, "indicator")
     /\ UNCHANGED <<today, userDoc, localStorage, currentUser, lateUser, quotaCache,
                    snap, txStale, txAttempts, incOutcome, incBase, incOk,
                    quotaEvents, incRejected>>
     /\ UNCHANGED nonQuotaVars

\* getQuotaUsed, the getDoc resolved
getQuotaUsedRead(t) ==
  LET u == currentUser[t]
      d == userDoc[u]
  IN /\ pc[t] = "get" /\ op[t] \in {"indicator", "generate", "mount"}
     /\ IF d.exists /\ shouldResetQuota(d.lastResetDate, today)
        THEN /\ snap' = [snap EXCEPT ![t] = [doc |-> d, date |-> today]]
             /\ pc' = [pc EXCEPT ![t] = "write"]
             /\ UNCHANGED <<quotaCache, op, quotaRet>>
        ELSE /\ quotaCache' =
                  IF d.exists
                  THEN [quotaCache EXCEPT ![t] =
                          [userId |-> u, used |-> d.quotaUsed]]
                  ELSE quotaCache
             /\ ReturnQuota(t, op[t], d.quotaUsed, FALSE)
             /\ UNCHANGED snap
     /\ UNCHANGED <<today, userDoc, localStorage, currentUser, lateUser, txStale,
                    txAttempts, incOutcome, incBase, incOk, quotaEvents, incRejected>>
     /\ UNCHANGED nonQuotaVars

\* getQuotaUsed, the updateDoc that resets the record resolved
getQuotaUsedReset(t) ==
  LET u == currentUser[t]
  IN /\ pc[t] = "write" /\ op[t] \in {"indicator", "generate", "mount"}
     /\ userDoc' = [userDoc EXCEPT ![u] =
                      [exists |-> TRUE, quotaUsed |-> 0,
                       lastResetDate |-> snap[t].date]]
     /\ incBase' = [incBase EXCEPT ![u] = 0]
     /\ incOk' = [incOk EXCEPT ![u] = 0]
     /\ MarkStale(t, u)
     /\ quotaCache' = [quotaCache EXCEPT ![t] = [userId |-> u, used |-> 0]]
     /\ ReturnQuota(t, op[t], 0, TRUE)
     /\ snap' = [snap EXCEPT ![t] = NoSnap]
     /\ UNCHANGED <<today, localStorage, currentUser, lateUser, txAttempts, incOutcome,
                    quotaEvents, incRejected>>
     /\ UNCHANGED nonQuotaVars

\* getQuotaUsed, a store call rejected: the catch block
getQuotaUsedError(t) ==
  /\ pc[t] \in {"get", "write"} /\ op[t] \in {"indicator", "generate", "mount"}
  /\ ReturnQuota(t, op[t], CachedUsedOrZero(t), StoredStale(currentUser[t]))
  /\ snap' = [snap EXCEPT ![t] = NoSnap]
  /\ UNCHANGED <<today, userDoc, localStorage, currentUser, lateUser, quotaCache,
                 txStale, txAttempts, incOutcome, incBase, incOk, quotaEvents, incRejected>>
  /\ UNCHANGED nonQuotaVars


\* handleGenerate up to the generation call: canMakeRequest gates it
handleGenerate(t) ==
  LET u == currentUser[t]
  IN /\ Idle(t)
     /\ u # NoUser
     /\ IF isUsingCustomApiKey(localStorage, u)
        THEN /\ pc' = [pc EXCEPT ![t] = "gen"]
             /\ op' = [op EXCEPT ![t] = "generate"]
             /\ UNCHANGED quotaRet
        ELSE IF CacheHit(t, u)
             THEN ReturnQuota(t, "generate", quotaCache[t].used, StoredStale(u))
             ELSE BeginQuotaRead(t, "generate")
     /\ UNCHANGED <<today, userDoc, localStorage, currentUser, lateUser, quotaCache,
                    snap, txStale, txAttempts, incOutcome, incBase, incOk,
                    quotaEvents, incRejected>>
     /\ UNCHANGED nonQuotaVars

\* transactions of this user's record that are under way
InFlight(u) ==
  Cardinality({x \in Tabs : currentUser[x] = u /\ pc[x] \in {"tx_get", "tx_commit"}})

\* handleGenerate, the generation resolved: isUsingCustomApiKey() is called
\* without a user id, and incrementQuota starts its transaction
handleGenerateDone(t) ==
  /\ pc[t] = "gen"
  /\ IF ~isUsingCustomApiKey(localStorage, Undefined)
     THEN /\ userDoc[currentUser[t]].quotaUsed + InFlight(currentUser[t]) < MaxUsed
          /\ pc' = [pc EXCEPT ![t] = "tx_get"]
          /\ txAttempts' = [txAttempts EXCEPT ![t] = 1]
          /\ incOutcome' = [incOutcome EXCEPT ![t] = "pending"]
          /\ quotaEvents' = [quotaEvents EXCEPT ![t] = FALSE]
          /\ incRejected' = [incRejected EXCEPT ![t] = FALSE]
          /\ UNCHANGED op
     ELSE /\ pc' = [pc EXCEPT ![t] = "idle"]
          /\ op' = [op EXCEPT ![t] = "none"]
          /\ UNCHANGED <<txAttempts, incOutcome, quotaEvents, incRejected>>
  /\ UNCHANGED <<today, userDoc, localStorage, currentUser, lateUser, quotaCache, snap,
                 txStale, quotaRet, incBase, incOk>>
  /\ UNCHANGED nonQuotaVars

\* handleGenerate, the generation rejected: no quota is charged
handleGenerateFailed(t) ==
  /\ pc[t] = "gen"
  /\ pc' = [pc EXCEPT ![t] = "idle"]
  /\ op' = [op EXCEPT ![t] = "none"]
  /\ UNCHANGED <<today, userDoc, localStorage, currentUser, lateUser, quotaCache, snap,
                 txStale, txAttempts, quotaRet, incOutcome, incBase, incOk,
                 quotaEvents, incRejected>>
  /\ UNCHANGED nonQuotaVars

\* incrementQuota(userId) is called: runTransaction starts
incrementQuotaCalled(t) ==
  /\ Idle(t)
  /\ currentUser[t] # NoUser
  /\ userDoc[currentUser[t]].quotaUsed + InFlight(currentUser[t]) < MaxUsed
  /\ op' = [op EXCEPT ![t] = "increment"]
  /\ pc' = [pc EXCEPT ![t] = "tx_get"]
  /\ txAttempts' = [txAttempts EXCEPT ![t] = 1]
  /\ incOutcome' = [incOutcome EXCEPT ![t] = "pending"]
  /\ quotaEvents' = [quotaEvents EXCEPT ![t] = FALSE]
  /\ incRejected' = [incRejected EXCEPT ![t] = FALSE]
  /\ UNCHANGED <<today, userDoc, localStorage, currentUser, lateUser, quotaCache, snap,
                 txStale, quotaRet, incBase, incOk>>
  /\ UNCHANGED nonQuotaCallVars

\* incrementQuota(userId) called in a tab
incrementQuota(t) == incrementQuotaCalled(t) /\ UNCHANGED cacheBefore

\* the same call, its caller noting what quotaCache holds
incrementQuotaObserved(t) ==
  /\ incrementQuotaCalled(t)
  /\ cacheBefore' = [cacheBefore EXCEPT ![t] = quotaCache[t]]

\* the transaction creates the record or starts a new day
IncrementResets(d, currentDate) ==
  ~d.exists \/ shouldResetQuota(d.lastResetDate, currentDate)

\* the quotaUsed the transaction function writes for the snapshot it read
NewUsed(d, currentDate) ==
  IF IncrementResets(d, currentDate) THEN 1 ELSE d.quotaUsed + 1

\* incrementQuota, transaction.get resolved and the update function ran: it
\* queues its write and sets quotaCache
incrementQuotaRead(t) ==
  LET u == currentUser[t]
      d == userDoc[u]
  IN /\ pc[t] = "tx_get"
     /\ snap' = [snap EXCEPT ![t] = [doc |-> d, date |-> today]]
     /\ txStale' = [txStale EXCEPT ![t] = FALSE]
     /\ quotaCache' = [quotaCache EXCEPT ![t] =
                         [userId |-> u, used |-> NewUsed(d, today)]]
     /\ pc' = [pc EXCEPT ![t] = "tx_commit"]
     /\ UNCHANGED <<today, userDoc, localStorage, currentUser, lateUser, op, txAttempts,
                    quotaRet, incOutcome, incBase, incOk, quotaEvents, incRejected>>
     /\ UNCHANGED nonQuotaVars

\* an incrementQuota that dispatches the event and resolves whatever happened
AfterTransactionSwallowed(failed) == [rejected |-> FALSE, event |-> TRUE]

\* incrementQuota around runTransaction: the event is dispatched after the
\* awaited transaction inside the try block, the catch block throws a new Error
AfterTransaction(failed) == [rejected |-> failed, event |-> ~failed]

\* a store that commits without comparing the document with what was read
CommitUnchecked(t) == TRUE

\* the store commits a transaction only if the document it read is unchanged
CommitAllowed(t) == ~txStale[t]

\* incrementQuota, the commit succeeded: the event is dispatched
incrementQuotaCommit(t) ==
  LET u == currentUser[t]
      d == snap[t].doc
      resets == IncrementResets(d, snap[t].date)
  IN /\ pc[t] = "tx_commit"
     /\ CommitAllowed(t)
     /\ userDoc' = [userDoc EXCEPT ![u] =
                      [exists |-> TRUE,
                       quotaUsed |-> NewUsed(d, snap[t].date),
                       lastResetDate |->
                         IF resets THEN snap[t].date ELSE d.lastResetDate]]
     /\ incBase' = [incBase EXCEPT ![u] = IF resets THEN 0 ELSE @]
     /\ incOk' = [incOk EXCEPT ![u] = IF resets THEN 1 ELSE @ + 1]
     /\ MarkStale(t, u)
     /\ quotaEvents' = [quotaEvents EXCEPT ![t] = AfterTransaction(FALSE).event]
     /\ incRejected' = [incRejected EXCEPT ![t] = AfterTransaction(FALSE).rejected]
     /\ incOutcome' = [incOutcome EXCEPT ![t] = "ok"]
     /\ pc' = [pc EXCEPT ![t] = "idle"]
     /\ op' = [op EXCEPT ![t] = "none"]
     /\ snap' = [snap EXCEPT ![t] = NoSnap]
     /\ UNCHANGED <<today, localStorage, currentUser, lateUser, quotaCache, txAttempts,
                    quotaRet>>
     /\ UNCHANGED nonQuotaVars

\* incrementQuota, the commit was refused because the document changed: the
\* SDK runs the update function again, or gives up and the call rejects
incrementQuotaConflict(t) ==
  /\ pc[t] = "tx_commit"
  /\ txStale[t]
  /\ IF txAttempts[t] < TxMaxAttempts
     THEN /\ pc' = [pc EXCEPT ![t] = "tx_get"]
          /\ txAttempts' = [txAttempts EXCEPT ![t] = @ + 1]
          /\ UNCHANGED <<op, incOutcome, quotaEvents, incRejected>>
     ELSE /\ pc' = [pc EXCEPT ![t] = "idle"]
          /\ op' = [op EXCEPT ![t] = "none"]
          /\ incOutcome' = [incOutcome EXCEPT ![t] = "exhausted"]
          /\ quotaEvents' = [quotaEvents EXCEPT ![t] = AfterTransaction(TRUE).event]
          /\ incRejected' = [incRejected EXCEPT ![t] = AfterTransaction(TRUE).rejected]
          /\ UNCHANGED txAttempts
  /\ snap' = [snap EXCEPT ![t] = NoSnap]
  /\ UNCHANGED <<today, userDoc, localStorage, currentUser, lateUser, quotaCache,
                 txStale, quotaRet, incBase, incOk>>
  /\ UNCHANGED nonQuotaVars

\* incrementQuota, the store is unreachable: the catch block rethrows
incrementQuotaError(t) ==
  /\ pc[t] \in {"tx_get", "tx_commit"}
  /\ pc' = [pc EXCEPT ![t] = "idle"]
  /\ op' = [op EXCEPT ![t] = "none"]
  /\ incOutcome' = [incOutcome EXCEPT ![t] = "unavailable"]
  /\ quotaEvents' = [quotaEvents EXCEPT ![t] = AfterTransaction(TRUE).event]
  /\ incRejected' = [incRejected EXCEPT ![t] = AfterTransaction(TRUE).rejected]
  /\ snap' = [snap EXCEPT ![t] = NoSnap]
  /\ UNCHANGED <<today, userDoc, localStorage, currentUser, lateUser, quotaCache,
                 txStale, txAttempts, quotaRet, incBase, incOk>>
  /\ UNCHANGED nonQuotaVars

\* credentials a user may type into the settings dialog (trimmed, non-empty)
Credentials == {<<65, 73, 122>>, <<45>>}

\* ApiKeySettings.handleSave
setUserApiKey(t, apiKey) ==
  /\ currentUser[t] # NoUser
  /\ localStorage' = secureSetItem(localStorage, ApiKeyKey(currentUser[t]),
                                   apiKey, currentUser[t])
  /\ lastCredOp' = [lastCredOp EXCEPT ![currentUser[t]] = "set"]
  /\ UNCHANGED quotaVars
  /\ UNCHANGED <<cacheVars, historyVars, statsVars, serviceVars, grammarVars, lastRoute>>

\* ApiKeySettings.handleClear
removeUserApiKey(t) ==
  /\ currentUser[t] # NoUser
  /\ localStorage' = removeItem(localStorage, ApiKeyKey(currentUser[t]))
  /\ lastCredOp' = [lastCredOp EXCEPT ![currentUser[t]] = "remove"]
  /\ UNCHANGED quotaVars
  /\ UNCHANGED <<cacheVars, historyVars, statsVars, serviceVars, grammarVars, lastRoute>>


(***************************************************************************)
(* Result cache (cacheService)                                             *)
(***************************************************************************)
RECURSIVE DecStr(_)
\* String(n) of a non-negative integer
DecStr(n) == IF n < 10 THEN <<48 + n>> ELSE Append(DecStr(n \div 10), 48 + (n % 10))

RECURSIVE ParseDigits(_, _, _)
ParseDigits(s, i, acc) ==
  IF i > Len(s) \/ s[i] < 48 \/ s[i] > 57 THEN acc
  ELSE ParseDigits(s, i + 1, acc * 10 + (s[i] - 48))

\* parseInt(s, 10) of a string that starts with a digit
ParseInt(s) == ParseDigits(s, 1, 0)

getCacheKey(userId, key) == <<CACHE_PREFIX, key, userId>>

getVersionKey(userId) == <<CACHE_PREFIX, "version", userId>>

DetailKey(historyId) == <<CACHE_PREFIX, "history_detail", historyId>>

\* key.startsWith(CACHE_PREFIX)
HasCachePrefix(key) == key[1] = CACHE_PREFIX

getCurrentVersion(storage, userId) ==
  IF hasItem(storage, getVersionKey(userId))
     /\ Len(storage[getVersionKey(userId)]) > 0
  THEN ParseInt(storage[getVersionKey(userId)])
  ELSE 1

\* an invalidation that also deletes the stored list
incrementVersionPurging(storage, userId) ==
  setItem(removeItem(storage, getCacheKey(userId, "history")),
          getVersionKey(userId),
          DecStr(getCurrentVersion(storage, userId) + 1))

\* an invalidation that leaves the version counter as it is
incrementVersionSkipped(storage, userId) == storage

incrementVersion(storage, userId) ==
  setItem(storage, getVersionKey(userId),
          DecStr(getCurrentVersion(storage, userId) + 1))

\* a list item: the summary getUserHistory builds; bandScore -1 stands for
\* feedback: undefined
Item(id, bandScore) == [id |-> id, bandScore |-> bandScore]

\* JSON.stringify of an item: a property whose value is undefined is left out
StringifyItem(item) ==
  IF item.bandScore = -1
  THEN [id |-> item.id]
  ELSE [id |-> item.id, bandScore |-> item.bandScore]

\* JSON.parse of an item: a property that is missing reads as undefined
ParseItem(json) ==
  [id |-> json.id,
   bandScore |-> IF "bandScore" \in DOMAIN json THEN json.bandScore ELSE -1]

\* JSON.stringify(cacheData)
StringifyCacheData(data, version, userId) ==
  [data |-> [i \in 1..Len(data) |-> StringifyItem(data[i])],
   version |-> DecStr(version),
   userId |-> userId]

\* JSON.parse(cached)
ParseCacheData(json) ==
  [data |-> [i \in 1..Len(json.data) |-> ParseItem(json.data[i])],
   version |-> ParseInt(json.version),
   userId |-> json.userId]

\* a slice that keeps the whole list
SliceWhole(history, n) == history

\* history.slice(0, n)
Slice(history, n) == SubSeq(history, 1, IF Len(history) < n THEN Len(history) ELSE n)

NoData == <<>>

\* getCachedHistory: whether it returns the cached list (a hit)
getCachedHistoryHit(storage, userId) ==
  LET cacheKey == getCacheKey(userId, "history")
  IN /\ hasItem(storage, cacheKey)
     /\ ParseCacheData(storage[cacheKey]).userId = userId
     /\ ParseCacheData(storage[cacheKey]).version = getCurrentVersion(storage, userId)

\* getCachedHistory: the list it returns on a hit
getCachedHistoryData(storage, userId) ==
  IF getCachedHistoryHit(storage, userId)
  THEN ParseCacheData(storage[getCacheKey(userId, "history")]).data
  ELSE NoData

\* getCachedHistory: localStorage after the call (a stale entry is removed)
getCachedHistoryPurge(storage, userId) ==
  IF getCachedHistoryHit(storage, userId) THEN storage
  ELSE removeItem(storage, getCacheKey(userId, "history"))

\* setCachedHistory: localStorage after the call
setCachedHistoryStore(storage, userId, history) ==
  setItem(storage, getCacheKey(userId, "history"),
          StringifyCacheData(Slice(history, MAX_CACHED_ITEMS),
                             getCurrentVersion(storage, userId), userId))

\* clearAllCache on one storage: every key with the cache prefix is removed
ClearPrefixed(storage) ==
  [k \in {x \in DOMAIN storage : ~HasCachePrefix(x)} |-> storage[k]]

\* the full record getHistoryDetail builds for a document
Detail(id, bandScore) == [id |-> id, bandScore |-> bandScore, full |-> TRUE]

getCachedHistoryDetailHit(storage, historyId) ==
  hasItem(storage, DetailKey(historyId))

setCachedHistoryDetailStore(storage, historyId, detail) ==
  setItem(storage, DetailKey(historyId),
          [data |-> detail, version |-> DecStr(1), userId |-> ""])

\* what the list-cache calls made last on a user were, after one more call
MutAfter(prev, call) ==
  IF call = "invalidate" /\ prev \in {"set", "set_invalidate"}
  THEN "set_invalidate"
  ELSE IF call = "clear" /\ prev = "set" THEN "set_clear"
  ELSE call


NoRetList ==
  [called |-> FALSE, userId |-> NoUser, hit |-> FALSE, data |-> NoData,
   after |-> "none", items |-> NoData, left |-> FALSE, gen |-> 0, ack |-> 0,
   gone |-> {}]

NoRetDetail == [called |-> FALSE, tab |-> 0, hit |-> FALSE, after |-> "none"]

\* the band score (in half points) stored with a document; -1: no feedback
BandOf(id) == IF id % 2 = 1 THEN -1 ELSE 10 + id

\* the item list with ids n, n-1, ..., 1
ItemList(n) == [i \in 1..n |-> Item((n + 1) - i, BandOf((n + 1) - i))]

\* the documents whose deleteHistory resolved (and was followed, in the same
\* turn, by invalidateHistoryCache)
DeletedResolved ==
  {id \in 1..MaxDocs :
     /\ id < nextDocId
     /\ historyDocs[id] = NoUser
     /\ \A t \in Tabs : ~(pc[t] = "d_done" /\ mutDoc[t].id = id)}

\* getCachedHistory(userId) as a call: the result is recorded, a stale entry
\* is removed
getCachedHistoryCall(userId) ==
  /\ localStorage' = getCachedHistoryPurge(localStorage, userId)
  /\ cacheRet' =
       [called |-> TRUE, userId |-> userId,
        hit |-> getCachedHistoryHit(localStorage, userId),
        data |-> getCachedHistoryData(localStorage, userId),
        after |-> lastMut[userId], items |-> lastSetItems[userId],
        left |-> hasItem(getCachedHistoryPurge(localStorage, userId),
                         getCacheKey(userId, "history")),
        gen |-> listGen[userId], ack |-> ackGen[userId],
        gone |-> DeletedResolved]

\* setCachedHistory(userId, history) as a call; gen: the store generation the
\* list was read at
setCachedHistoryCall(userId, history, gen) ==
  /\ localStorage' = setCachedHistoryStore(localStorage, userId, history)
  /\ lastMut' = [lastMut EXCEPT ![userId] = "set"]
  /\ lastSetItems' = [lastSetItems EXCEPT ![userId] = history]
  /\ listGen' = [listGen EXCEPT ![userId] = gen]

\* invalidateHistoryCache(userId) as a call
invalidateHistoryCacheCall(userId) ==
  /\ localStorage' = incrementVersion(localStorage, userId)
  /\ lastMut' = [lastMut EXCEPT ![userId] = MutAfter(@, "invalidate")]

(***************************************************************************)
(* The cache interface called directly, on any input                       *)
(***************************************************************************)
\* lengths of the lists handed to setCachedHistory
ListLens == {0, 1, MAX_CACHED_ITEMS, MaxListLen}

\* record ids of the detail cache
DetailIds == {1, 2}

getCachedHistory(userId) ==
  /\ getCachedHistoryCall(userId)
  /\ UNCHANGED <<sessionStorage, detailRet, lastMut, lastSetItems, detailMut,
                 listGen, ackGen>>
  /\ UNCHANGED <<quotaVars, historyVars, statsVars, serviceVars, grammarVars, routeVars>>

setCachedHistory(userId, n) ==
  /\ setCachedHistoryCall(userId, ItemList(n), listGen[userId])
  /\ UNCHANGED <<sessionStorage, cacheRet, detailRet, detailMut, ackGen>>
  /\ UNCHANGED <<quotaVars, historyVars, statsVars, serviceVars, grammarVars, routeVars>>

invalidateHistoryCache(userId) ==
  /\ getCurrentVersion(localStorage, userId) < MaxVersion
  /\ invalidateHistoryCacheCall(userId)
  /\ UNCHANGED <<sessionStorage, cacheRet, detailRet, lastSetItems, detailMut,
                 listGen, ackGen>>
  /\ UNCHANGED <<quotaVars, historyVars, statsVars, serviceVars, grammarVars, routeVars>>

getCachedHistoryDetail(t, historyId) ==
  /\ detailRet' =
       [called |-> TRUE, tab |-> t,
        hit |-> getCachedHistoryDetailHit(sessionStorage[t], historyId),
        after |-> detailMut[t][historyId]]
  /\ UNCHANGED <<localStorage, sessionStorage, cacheRet, lastMut, lastSetItems,
                 detailMut, listGen, ackGen>>
  /\ UNCHANGED <<quotaVars, historyVars, statsVars, serviceVars, grammarVars, routeVars>>

setCachedHistoryDetail(t, historyId) ==
  /\ sessionStorage' = [sessionStorage EXCEPT ![t] =
       setCachedHistoryDetailStore(@, historyId, Detail(historyId, BandOf(historyId)))]
  /\ detailMut' = [detailMut EXCEPT ![t][historyId] = "set"]
  /\ UNCHANGED <<localStorage, cacheRet, detailRet, lastMut, lastSetItems,
                 listGen, ackGen>>
  /\ UNCHANGED <<quotaVars, historyVars, statsVars, serviceVars, grammarVars, routeVars>>

invalidateHistoryDetailCache(t, historyId) ==
  /\ sessionStorage' = [sessionStorage EXCEPT ![t] = removeItem(@, DetailKey(historyId))]
  /\ detailMut' = [detailMut EXCEPT ![t][historyId] = "invalidate"]
  /\ UNCHANGED <<localStorage, cacheRet, detailRet, lastMut, lastSetItems,
                 listGen, ackGen>>
  /\ UNCHANGED <<quotaVars, historyVars, statsVars, serviceVars, grammarVars, routeVars>>

\* a clear that does not touch sessionStorage
ClearSessionSkipped(storage) == storage

\* what clearAllCache leaves of the tab's sessionStorage
ClearSession(storage) == ClearPrefixed(storage)

\* clearAllCache, as App's effect runs it in a tab on logout
clearAllCache(t) ==
  /\ localStorage' = ClearPrefixed(localStorage)
  /\ sessionStorage' = [sessionStorage EXCEPT ![t] = ClearSession(@)]
  /\ lastMut' = [u \in Users |-> MutAfter(lastMut[u], "clear")]
  /\ detailMut' = [detailMut EXCEPT ![t] =
                     [id \in DetailIds |-> MutAfter(detailMut[t][id], "clear")]]
  /\ UNCHANGED <<cacheRet, detailRet, lastSetItems, listGen, ackGen>>
  /\ UNCHANGED <<quotaVars, historyVars, statsVars, serviceVars, grammarVars, routeVars>>


(***************************************************************************)
(* History service and App wiring                                          *)
(***************************************************************************)
NoHSnap == [items |-> NoData, gen |-> 0]

NoMut == [id |-> 0, index |-> 0, gen |-> 0]

MaxOf(a, b) == IF a >= b THEN a ELSE b

DocIds == 1..MaxDocs

RECURSIVE QueryFrom(_, _, _, _)
\* where userId == u, orderBy createdAt desc, limit n: ids from id downwards
QueryFrom(docs, u, id, n) ==
  IF id = 0 \/ n = 0 THEN <<>>
  ELSE IF docs[id] = u
       THEN <<Item(id, BandOf(id))>> \o QueryFrom(docs, u, id - 1, n - 1)
       ELSE QueryFrom(docs, u, id - 1, n)

\* the first page getUserHistory queries
FirstPage(docs, u) == QueryFrom(docs, u, MaxDocs, PAGE_SIZE)

\* the fallback query: all of the user's documents, sorted on the client
AllOfUser(docs, u) == QueryFrom(docs, u, MaxDocs, MaxDocs)

\* App state after setHistory(list): the ids shown
Ids(list) == [i \in 1..Len(list) |-> list[i].id]

\* prev.filter((_, i) => i !== index), index counted from 1 here
RemoveAt(list, index) ==
  [i \in 1..(Len(list) - 1) |-> IF i < index THEN list[i] ELSE list[i + 1]]

\* loadUserHistory(false) up to the first await: getUserHistory reads the cache
loadUserHistory(t) ==
  LET u == currentUser[t]
  IN /\ Idle(t)
     /\ u # NoUser
     /\ ~historyLoaded[t]
     /\ getCachedHistoryCall(u)
     /\ IF getCachedHistoryHit(localStorage, u)
        THEN /\ appHistory' = [appHistory EXCEPT ![t] =
                                 Ids(getCachedHistoryData(localStorage, u))]
             /\ historyLoaded' = [historyLoaded EXCEPT ![t] = TRUE]
             /\ UNCHANGED <<op, pc>>
        ELSE /\ op' = [op EXCEPT ![t] = "load"]
             /\ pc' = [pc EXCEPT ![t] = "h_sent"]
             /\ UNCHANGED <<appHistory, historyLoaded>>
     /\ UNCHANGED <<sessionStorage, detailRet, lastMut, lastSetItems, detailMut,
                    listGen, ackGen>>
     /\ UNCHANGED <<historyDocs, nextDocId, histGen, hsnap, mutDoc>>
     /\ UNCHANGED <<quotaData, grammarVars, routeVars, statsVars, serviceVars>>

\* the store evaluates the ordered query (or, after it failed, the fallback)
historyQueryServed(t) ==
  LET u == currentUser[t]
  IN /\ op[t] = "load" /\ pc[t] \in {"h_sent", "f_sent"}
     /\ hsnap' = [hsnap EXCEPT ![t] =
                    [items |-> IF pc[t] = "h_sent"
                               THEN FirstPage(historyDocs, u)
                               ELSE Slice(AllOfUser(historyDocs, u), PAGE_SIZE),
                     gen |-> histGen[u]]]
     /\ pc' = [pc EXCEPT ![t] = IF pc[t] = "h_sent" THEN "h_recv" ELSE "f_recv"]
     /\ UNCHANGED <<localStorage, op, cacheVars>>
     /\ UNCHANGED <<historyDocs, nextDocId, histGen, appHistory, historyLoaded,
                    mutDoc>>
     /\ UNCHANGED <<quotaData, grammarVars, routeVars, statsVars, serviceVars>>

\* getUserHistory caches the page it received (the ordered query only when it
\* is not empty) and loadUserHistory shows it
historyQueryResolved(t) ==
  LET u == currentUser[t]
      history == hsnap[t].items
  IN /\ op[t] = "load" /\ pc[t] \in {"h_recv", "f_recv"}
     /\ IF pc[t] = "f_recv" \/ Len(history) > 0
        THEN setCachedHistoryCall(u, history, hsnap[t].gen)
        ELSE UNCHANGED <<localStorage, lastMut, lastSetItems, listGen>>
     /\ appHistory' = [appHistory EXCEPT ![t] = Ids(history)]
     /\ historyLoaded' = [historyLoaded EXCEPT ![t] = TRUE]
     /\ hsnap' = [hsnap EXCEPT ![t] = NoHSnap]
     /\ pc' = [pc EXCEPT ![t] = "idle"]
     /\ op' = [op EXCEPT ![t] = "none"]
     /\ UNCHANGED <<sessionStorage, cacheRet, detailRet, detailMut, ackGen>>
     /\ UNCHANGED <<historyDocs, nextDocId, histGen, mutDoc>>
     /\ UNCHANGED <<quotaData, grammarVars, routeVars, statsVars, serviceVars>>

\* a query rejected: the ordered one falls back to the unordered one, the
\* fallback makes getUserHistory return an empty page
historyQueryFailed(t) ==
  /\ op[t] = "load" /\ pc[t] \in {"h_sent", "h_recv", "f_sent", "f_recv"}
  /\ IF pc[t] \in {"h_sent", "h_recv"}
     THEN /\ pc' = [pc EXCEPT ![t] = "f_sent"]
          /\ UNCHANGED <<op, appHistory, historyLoaded>>
     ELSE /\ pc' = [pc EXCEPT ![t] = "idle"]
          /\ op' = [op EXCEPT ![t] = "none"]
          /\ appHistory' = [appHistory EXCEPT ![t] = <<>>]
          /\ historyLoaded' = [historyLoaded EXCEPT ![t] = TRUE]
  /\ hsnap' = [hsnap EXCEPT ![t] = NoHSnap]
  /\ UNCHANGED <<localStorage, cacheVars>>
  /\ UNCHANGED <<historyDocs, nextDocId, histGen, mutDoc>>
  /\ UNCHANGED <<quotaData, grammarVars, routeVars, statsVars, serviceVars>>

\* addToHistory: saveHistory sends its addDoc
addToHistory(t) ==
  /\ Idle(t)
  /\ currentUser[t] # NoUser
  /\ nextDocId <= MaxDocs
  /\ op' = [op EXCEPT ![t] = "save"]
  /\ pc' = [pc EXCEPT ![t] = "s_add"]
  /\ UNCHANGED <<localStorage, cacheVars, historyVars>>
  /\ UNCHANGED <<quotaData, grammarVars, routeVars, statsVars, serviceVars>>

\* the store adds the document
saveHistoryAdded(t) ==
  LET u == currentUser[t]
  IN /\ op[t] = "save" /\ pc[t] = "s_add"
     /\ nextDocId <= MaxDocs
     /\ historyDocs' = [historyDocs EXCEPT ![nextDocId] = u]
     /\ nextDocId' = nextDocId + 1
     /\ histGen' = [histGen EXCEPT ![u] = @ + 1]
     /\ mutDoc' = [mutDoc EXCEPT ![t] =
                     [id |-> nextDocId, index |-> 0, gen |-> histGen[u] + 1]]
     /\ pc' = [pc EXCEPT ![t] = "s_done"]
     /\ UNCHANGED <<localStorage, op, cacheVars>>
     /\ UNCHANGED <<appHistory, historyLoaded, hsnap>>
     /\ UNCHANGED <<quotaData, grammarVars, routeVars, statsVars, serviceVars>>

\* saveHistory resolved: addToHistory prepends the entry, invalidates the list
\* cache and resets pagination
saveHistoryResolved(t) ==
  LET u == currentUser[t]
  IN /\ op[t] = "save" /\ pc[t] = "s_done"
     /\ appHistory' = [appHistory EXCEPT ![t] = <<mutDoc[t].id>> \o @]
     /\ invalidateHistoryCacheCall(u)
     /\ ackGen' = [ackGen EXCEPT ![u] = MaxOf(@, mutDoc[t].gen)]
     /\ historyLoaded' = [historyLoaded EXCEPT ![t] = FALSE]
     /\ mutDoc' = [mutDoc EXCEPT ![t] = NoMut]
     /\ pc' = [pc EXCEPT ![t] = "idle"]
     /\ op' = [op EXCEPT ![t] = "none"]
     /\ UNCHANGED <<sessionStorage, cacheRet, detailRet, lastSetItems,
                    detailMut, listGen>>
     /\ UNCHANGED <<historyDocs, nextDocId, histGen, hsnap>>
     /\ UNCHANGED <<quotaData, grammarVars, routeVars, statsVars, serviceVars>>

\* the addDoc rejected: saveHistory rethrows, addToHistory swallows it
saveHistoryFailed(t) ==
  /\ op[t] = "save" /\ pc[t] = "s_add"
  /\ pc' = [pc EXCEPT ![t] = "idle"]
  /\ op' = [op EXCEPT ![t] = "none"]
  /\ UNCHANGED <<localStorage, cacheVars, historyVars>>
  /\ UNCHANGED <<quotaData, grammarVars, routeVars, statsVars, serviceVars>>

\* handleDeleteHistory(index): deleteHistory sends its deleteDoc
handleDeleteHistory(t, index) ==
  /\ Idle(t)
  /\ currentUser[t] # NoUser
  /\ index \in 1..Len(appHistory[t])
  /\ mutDoc' = [mutDoc EXCEPT ![t] =
                  [id |-> appHistory[t][index], index |-> index, gen |-> 0]]
  /\ op' = [op EXCEPT ![t] = "delete"]
  /\ pc' = [pc EXCEPT ![t] = "d_del"]
  /\ UNCHANGED <<localStorage, cacheVars>>
  /\ UNCHANGED <<historyDocs, nextDocId, histGen, appHistory, historyLoaded,
                 hsnap>>
  /\ UNCHANGED <<quotaData, grammarVars, routeVars, statsVars, serviceVars>>

\* the store deletes the document (deleting a missing one succeeds too)
deleteHistoryApplied(t) ==
  LET u == currentUser[t]
      id == mutDoc[t].id
      there == historyDocs[id] # NoUser
      gen == IF there THEN histGen[u] + 1 ELSE histGen[u]
  IN /\ op[t] = "delete" /\ pc[t] = "d_del"
     /\ historyDocs' = [historyDocs EXCEPT ![id] = NoUser]
     /\ histGen' = [histGen EXCEPT ![u] = gen]
     /\ mutDoc' = [mutDoc EXCEPT ![t].gen = gen]
     /\ pc' = [pc EXCEPT ![t] = "d_done"]
     /\ UNCHANGED <<localStorage, op, cacheVars>>
     /\ UNCHANGED <<nextDocId, appHistory, historyLoaded, hsnap>>
     /\ UNCHANGED <<quotaData, grammarVars, routeVars, statsVars, serviceVars>>

\* deleteHistory resolved: the entry is dropped by index, the list cache is
\* invalidated and pagination reset
deleteHistoryResolved(t) ==
  LET u == currentUser[t]
  IN /\ op[t] = "delete" /\ pc[t] = "d_done"
     /\ appHistory' = [appHistory EXCEPT ![t] = RemoveAt(@, mutDoc[t].index)]
     /\ invalidateHistoryCacheCall(u)
     /\ ackGen' = [ackGen EXCEPT ![u] = MaxOf(@, mutDoc[t].gen)]
     /\ historyLoaded' = [historyLoaded EXCEPT ![t] = FALSE]
     /\ mutDoc' = [mutDoc EXCEPT ![t] = NoMut]
     /\ pc' = [pc EXCEPT ![t] = "idle"]
     /\ op' = [op EXCEPT ![t] = "none"]
     /\ UNCHANGED <<sessionStorage, cacheRet, detailRet, lastSetItems,
                    detailMut, listGen>>
     /\ UNCHANGED <<historyDocs, nextDocId, histGen, hsnap>>
     /\ UNCHANGED <<quotaData, grammarVars, routeVars, statsVars, serviceVars>>

\* the deleteDoc rejected: deleteHistory rethrows, the handler swallows it
deleteHistoryFailed(t) ==
  /\ op[t] = "delete" /\ pc[t] = "d_del"
  /\ mutDoc' = [mutDoc EXCEPT ![t] = NoMut]
  /\ pc' = [pc EXCEPT ![t] = "idle"]
  /\ op' = [op EXCEPT ![t] = "none"]
  /\ UNCHANGED <<localStorage, cacheVars>>
  /\ UNCHANGED <<historyDocs, nextDocId, histGen, appHistory, historyLoaded,
                 hsnap>>
  /\ UNCHANGED <<quotaData, grammarVars, routeVars, statsVars, serviceVars>>


(***************************************************************************)
(* Grammar check: the proxied and the direct transport                     *)
(***************************************************************************)
\* a parsed JSON value, as far as checkGrammar looks into it: its kind, the
\* length of an array, the kind of an object's segments property and the
\* length of that property when it is an array
Json(kind, len, seg, segLen) ==
  [kind |-> kind, len |-> len, seg |-> seg, segLen |-> segLen]

JsonNull == Json("null", 0, "absent", 0)

JsonArray(n) == Json("array", n, "absent", 0)

\* { segments: [...] } with n segments
SegmentsObject(n) == Json("object", 0, "array", n)

JsonValues ==
  {Json(k, 0, "absent", 0) : k \in {"null", "number", "string", "boolean"}}
    \cup {JsonArray(n) : n \in 0..MaxSegments}
    \cup {Json("object", 0, sk, 0) :
            sk \in {"absent", "null", "string", "number", "object"}}
    \cup {SegmentsObject(n) : n \in 0..MaxSegments}

\* what the upstream call gives: it rejects, or resolves with no text, with
\* text that is not JSON, or with the text of a JSON value
Replies ==
  {[fail |-> TRUE, text |-> "none", value |-> JsonNull],
   [fail |-> FALSE, text |-> "none", value |-> JsonNull],
   [fail |-> FALSE, text |-> "invalid", value |-> JsonNull]}
    \cup {[fail |-> FALSE, text |-> "json", value |-> v] : v \in JsonValues}

Requests ==
  {[transport |-> "proxy", hasKey |-> FALSE, reply |-> r] : r \in Replies}
    \cup {[transport |-> "direct", hasKey |-> k, reply |-> r] :
            k \in BOOLEAN, r \in Replies}

Settled(value) == [done |-> TRUE, rejected |-> FALSE, value |-> value]

NoResult == [done |-> FALSE, rejected |-> FALSE, value |-> JsonNull]

\* Array.isArray(parsed)
IsArray(parsed) == parsed.kind = "array"

\* parsed.segments && Array.isArray(parsed.segments)
HasSegmentsArray(parsed) == parsed.kind = "object" /\ parsed.seg = "array"

\* reading parsed.segments throws a TypeError
SegmentsReadThrows(parsed) == parsed.kind = "null"

\* geminiProxyService.checkGrammar
proxyCheckGrammar(reply) ==
  IF reply.fail \/ reply.text = "none" \/ reply.text = "invalid"
  THEN Settled(SegmentsObject(0))
  ELSE IF SegmentsReadThrows(reply.value) THEN Settled(SegmentsObject(0))
  ELSE IF IsArray(reply.value) THEN Settled(SegmentsObject(reply.value.len))
  ELSE IF HasSegmentsArray(reply.value) THEN Settled(reply.value)
  ELSE Settled(SegmentsObject(0))

\* geminiService.checkGrammar: getClient throws without a key
directCheckGrammar(hasKey, reply) ==
  IF ~hasKey \/ reply.fail \/ reply.text = "none" \/ reply.text = "invalid"
  THEN Settled(SegmentsObject(0))
  ELSE Settled(reply.value)

\* WritingEditor.performCheck asks for a check of its text
performCheck ==
  /\ gRes.done
  /\ gReq' \in Requests
  /\ gRes' = NoResult
  /\ UNCHANGED <<localStorage, quotaVars, cacheVars, historyVars, statsVars, serviceVars, routeVars>>

\* the check goes through the proxied transport
checkGrammarProxy ==
  /\ ~gRes.done
  /\ gReq.transport = "proxy"
  /\ gRes' = proxyCheckGrammar(gReq.reply)
  /\ UNCHANGED <<gReq, localStorage, quotaVars, cacheVars, historyVars, statsVars, serviceVars,
                 routeVars>>

\* the check goes through the direct transport
checkGrammarDirect ==
  /\ ~gRes.done
  /\ gReq.transport = "direct"
  /\ gRes' = directCheckGrammar(gReq.hasKey, gReq.reply)
  /\ UNCHANGED <<gReq, localStorage, quotaVars, cacheVars, historyVars, statsVars, serviceVars,
                 routeVars>>

(***************************************************************************)
(* The adapter: one routing decision per call                              *)
(***************************************************************************)
NoRoute == [route |-> "none", after |-> "none", prev |-> "none"]

\* a routing decision made once per tab and kept
getServiceCached(t) ==
  IF lastRoute[t].route # "none" THEN lastRoute[t].route
  ELSE IF currentUser[t] # NoUser /\ isUsingCustomApiKey(localStorage, currentUser[t])
       THEN "direct" ELSE "proxy"

\* getService
getService(t) ==
  IF currentUser[t] = NoUser THEN "proxy"
  ELSE IF isUsingCustomApiKey(localStorage, currentUser[t]) THEN "direct"
  ELSE "proxy"

\* any exported function of the adapter is called in a tab
adapterCall(t) ==
  /\ lastRoute' = [lastRoute EXCEPT ![t] =
                     [route |-> getService(t),
                      after |-> IF currentUser[t] = NoUser THEN "nouser"
                                ELSE lastCredOp[currentUser[t]],
                      prev |-> lastRoute[t].route]]
  /\ UNCHANGED <<localStorage, lastCredOp, quotaVars, cacheVars, historyVars, statsVars, serviceVars,
                 grammarVars>>


(***************************************************************************)
(* Numbers of the user statistics.  A band score is counted in half bands  *)
(* (6.5 is 13).  A JavaScript number is an IEEE 754 double: its 53-bit     *)
(* significand m and the exponent e of the last bit, the value being       *)
(* m * 2^e; every operation rounds to nearest, ties to even.  m is written *)
(* in digits of 15 bits, the most significant first.  Rat is the same      *)
(* quantity in exact arithmetic, n / d half bands.                         *)
(***************************************************************************)
SignificandBits == 53

DigitBits == 15

Base == 2 ^ DigitBits

DblZero == [m |-> <<>>, e |-> 0]

\* a number without its leading zero digits
BigNorm(N) ==
  LET nz == {i \in 1..Len(N) : N[i] # 0}
  IN IF nz = {} THEN <<>>
     ELSE SubSeq(N, CHOOSE i \in nz : \A j \in nz : i <= j, Len(N))

RECURSIVE BigTimesFrom(_, _, _, _)
\* the digits of N * k, from digit i of N downwards
BigTimesFrom(N, k, i, carry) ==
  IF i = 0 THEN <<carry>>
  ELSE LET v == N[i] * k + carry
       IN Append(BigTimesFrom(N, k, i - 1, v \div Base), v % Base)

\* N * k for k below Base
BigTimes(N, k) == BigNorm(BigTimesFrom(N, k, Len(N), 0))

RECURSIVE BigPlusFrom(_, _, _, _)
\* the digits of A + C, from the digit k places above the last one upwards
BigPlusFrom(A, C, k, carry) ==
  IF k >= Len(A) /\ k >= Len(C) THEN <<carry>>
  ELSE LET v == (IF k < Len(A) THEN A[Len(A) - k] ELSE 0)
                + (IF k < Len(C) THEN C[Len(C) - k] ELSE 0) + carry
       IN Append(BigPlusFrom(A, C, k + 1, v \div Base), v % Base)

BigPlus(A, C) == BigNorm(BigPlusFrom(A, C, 0, 0))

RECURSIVE BigOverFrom(_, _, _, _, _)
\* long division of N by k below Base, from digit i on
BigOverFrom(N, k, i, r, q) ==
  IF i > Len(N) THEN [q |-> BigNorm(q), r |-> r]
  ELSE LET v == r * Base + N[i]
       IN BigOverFrom(N, k, i + 1, v % k, Append(q, v \div k))

\* the quotient and the remainder of N by k
BigOver(N, k) == BigOverFrom(N, k, 1, 0, <<>>)

\* the number of binary digits of N
BitLength(N) ==
  IF N = <<>> THEN 0
  ELSE (Len(N) - 1) * DigitBits
       + (CHOOSE b \in 1..DigitBits : 2 ^ (b - 1) <= N[1] /\ N[1] < 2 ^ b)

\* N * 2^s
ShiftLeft(N, s) ==
  IF N = <<>> THEN N
  ELSE BigTimes(N, 2 ^ (s % DigitBits)) \o [i \in 1..(s \div DigitBits) |-> 0]

\* N \div 2^s, and whether digits were shifted out
ShiftRight(N, s) ==
  LET whole == s \div DigitBits
      kept == SubSeq(N, 1, Len(N) - whole)
      d == BigOver(kept, 2 ^ (s % DigitBits))
  IN [n |-> d.q,
      lost |-> d.r # 0 \/ \E i \in (Len(N) - whole + 1)..Len(N) : N[i] # 0]

IsOdd(N) == N # <<>> /\ N[Len(N)] % 2 = 1

\* the double nearest to N * 2^e (plus a non-zero rest below the last digit
\* when sticky), ties to even
RoundToDouble(N, e, sticky) ==
  LET P == SignificandBits
      len == BitLength(N)
  IN IF len = 0 THEN DblZero
     ELSE IF len <= P THEN [m |-> ShiftLeft(N, P - len), e |-> e - (P - len)]
     ELSE LET withGuard == ShiftRight(N, len - P - 1)
              top == BigOver(withGuard.n, 2).q
              up == /\ IsOdd(withGuard.n)
                    /\ sticky \/ withGuard.lost \/ IsOdd(top)
              next == BigPlus(top, <<1>>)
          IN IF ~up THEN [m |-> top, e |-> e + len - P]
             ELSE IF BitLength(next) = P THEN [m |-> next, e |-> e + len - P]
             ELSE [m |-> BigOver(next, 2).q, e |-> e + len - P + 1]

\* x * n for a double x and a count n
DblTimes(x, n) ==
  IF x = DblZero \/ n = 0 THEN DblZero
  ELSE RoundToDouble(BigTimes(x.m, n), x.e, FALSE)

\* x + s/2 for a double x and a band score of s half bands
DblPlus(x, s) ==
  IF s = 0 THEN x
  ELSE IF x = DblZero THEN RoundToDouble(<<s>>, -1, FALSE)
  ELSE LET lo == IF x.e < -1 THEN x.e ELSE -1
       IN RoundToDouble(BigPlus(ShiftLeft(x.m, x.e - lo),
                                ShiftLeft(<<s>>, -1 - lo)), lo, FALSE)

\* x / n for a double x and a count n >= 1: the quotient is computed to one
\* digit more than x has, the remainder decides a tie
DblOver(x, n) ==
  IF x = DblZero THEN DblZero
  ELSE LET d == BigOver(ShiftLeft(x.m, DigitBits), n)
       IN RoundToDouble(d.q, x.e - DigitBits, d.r # 0)

\* the next double above a positive double x
DblNext(x) == RoundToDouble(BigPlus(x.m, <<1>>), x.e, FALSE)

\* two doubles that are equal or next to each other
DblNear(x, y) ==
  \/ x = y
  \/ x # DblZero /\ y # DblZero /\ (DblNext(x) = y \/ DblNext(y) = x)

RECURSIVE GCD(_, _)
GCD(a, b) == IF b = 0 THEN a ELSE GCD(b, a % b)

RatZero == [n |-> 0, d |-> 1]

\* n / d in lowest terms
Rat(n, d) == LET g == GCD(n, d) IN [n |-> n \div g, d |-> d \div g]

RatTimes(x, n) == Rat(x.n * n, x.d)

RatPlus(x, s) == Rat(x.n + s * x.d, x.d)

RatOver(x, n) == Rat(x.n, x.d * n)

(***************************************************************************)
(* User statistics (userStatsService) of one user                          *)
(***************************************************************************)
\* progressTrend keeps the last 10 band scores
TREND_LENGTH == 10

\* array.slice(-n)
LastN(seq, n) ==
  IF Len(seq) <= n THEN seq ELSE SubSeq(seq, Len(seq) - n + 1, Len(seq))

\* no document in user_stats
NoStats ==
  [exists |-> FALSE, totalAttempts |-> 0, avgBandScore |-> DblZero,
   task1Attempts |-> 0, task2Attempts |-> 0,
   avgTask1Score |-> DblZero, avgTask2Score |-> DblZero,
   progressTrend |-> <<>>]

\* the document initializeUserStats creates
EmptyStats == [NoStats EXCEPT !.exists = TRUE]

\* the three averages of the record in exact arithmetic
NoExact ==
  [avgBandScore |-> RatZero, avgTask1Score |-> RatZero,
   avgTask2Score |-> RatZero]

\* a history entry: feedback is absent from an entry that was not graded
Entry(taskType, feedback, bandScore) ==
  [taskType |-> taskType, feedback |-> feedback, bandScore |-> bandScore]

NoEntry == Entry("", FALSE, 0)

\* ((avg * count) + bandScore) / (count + 1) as the doubles it is computed in
RunningAverage(avg, count, bandScore) ==
  DblOver(DblPlus(DblTimes(avg, count), bandScore), count + 1)

\* a running average that does not weigh the old average by its count
RunningAverageUnweighted(avg, count, bandScore) ==
  RatOver(RatPlus(avg, bandScore), count + 1)

\* ((avg * count) + bandScore) / (count + 1) in exact arithmetic
RunningAverageExact(avg, count, bandScore) ==
  RatOver(RatPlus(RatTimes(avg, count), bandScore), count + 1)

\* the fields updateUserStats writes for the record it read
UpdatedStats(cur, taskType, bandScore) ==
  LET isTask1 == taskType = "Task 1"
  IN [exists |-> TRUE,
      totalAttempts |-> cur.totalAttempts + 1,
      avgBandScore |->
        RunningAverage(cur.avgBandScore, cur.totalAttempts, bandScore),
      task1Attempts |-> IF isTask1 THEN cur.task1Attempts + 1
                        ELSE cur.task1Attempts,
      task2Attempts |-> IF isTask1 THEN cur.task2Attempts
                        ELSE cur.task2Attempts + 1,
      avgTask1Score |->
        IF isTask1
        THEN RunningAverage(cur.avgTask1Score, cur.task1Attempts, bandScore)
        ELSE cur.avgTask1Score,
      avgTask2Score |->
        IF isTask1 THEN cur.avgTask2Score
        ELSE RunningAverage(cur.avgTask2Score, cur.task2Attempts, bandScore),
      progressTrend |->
        LastN(Append(cur.progressTrend, bandScore), TREND_LENGTH)]

\* the averages updateUserStats computes, in exact arithmetic
UpdatedExact(ex, cur, taskType, bandScore) ==
  LET isTask1 == taskType = "Task 1"
  IN [avgBandScore |->
        RunningAverageExact(ex.avgBandScore, cur.totalAttempts, bandScore),
      avgTask1Score |->
        IF isTask1
        THEN RunningAverageExact(ex.avgTask1Score, cur.task1Attempts, bandScore)
        ELSE ex.avgTask1Score,
      avgTask2Score |->
        IF isTask1 THEN ex.avgTask2Score
        ELSE RunningAverageExact(ex.avgTask2Score, cur.task2Attempts, bandScore)]

RECURSIVE SumScores(_)
\* the band scores of a list added up, in half bands
SumScores(list) ==
  IF list = <<>> THEN 0 ELSE Head(list).bandScore + SumScores(Tail(list))

Scores(list) == [i \in 1..Len(list) |-> list[i].bandScore]

Graded(list) == SelectSeq(list, LAMBDA e : e.feedback)

\* a selection that keeps the entries of every task
AnyTask(list) == list

OfTask1(list) == SelectSeq(list, LAMBDA e : e.taskType = "Task 1")

OfTask2(list) == SelectSeq(list, LAMBDA e : e.taskType # "Task 1")

\* a total of band scores as a double: totalScore += bandScore adds multiples
\* of 0.5 far below 2^53, so no addition rounds
TotalAsDouble(total) == RoundToDouble(BigNorm(<<total>>), -1, FALSE)

\* the document recalculateUserStats writes for historyData
Recalculated(historyData) ==
  LET all == Graded(historyData)
      task1 == OfTask1(all)
      task2 == OfTask2(all)
      Avg(list) == IF Len(list) > 0
                   THEN DblOver(TotalAsDouble(SumScores(list)), Len(list))
                   ELSE DblZero
  IN [exists |-> TRUE,
      totalAttempts |-> Len(all),
      avgBandScore |-> Avg(all),
      task1Attempts |-> Len(task1),
      task2Attempts |-> Len(task2),
      avgTask1Score |-> Avg(task1),
      avgTask2Score |-> Avg(task2),
      progressTrend |-> LastN(Scores(all), TREND_LENGTH)]

\* the averages recalculateUserStats computes, in exact arithmetic
RecalculatedExact(historyData) ==
  LET all == Graded(historyData)
      Avg(list) == IF Len(list) > 0 THEN Rat(SumScores(list), Len(list))
                   ELSE RatZero
  IN [avgBandScore |-> Avg(all),
      avgTask1Score |-> Avg(OfTask1(all)),
      avgTask2Score |-> Avg(OfTask2(all))]

\* every order of n documents
AllOrders(n) ==
  {f \in [1..n -> 1..n] : \A i, j \in 1..n : i # j => f[i] # f[j]}

\* the rotations of n documents, forwards and backwards
TurnedOrders(n) ==
  {[i \in 1..n |-> ((i + k - 1) % n) + 1] : k \in 0..(n - 1)}
    \cup {[i \in 1..n |-> n - ((i + k - 1) % n)] : k \in 0..(n - 1)}

\* the orders a list is tried in: all of them for a short list
Orders(n) == IF n <= MaxPermuted THEN AllOrders(n) ELSE TurnedOrders(n)

Permuted(list, order) == [i \in 1..Len(list) |-> list[order[i]]]

StatsSettled == statsPc \in {"idle", "resolved", "rejected"}

nonStatsVars ==
  <<localStorage, quotaVars, cacheVars, historyVars, grammarVars, routeVars,
    serviceVars>>

\* saveHistory of a graded entry: the addDoc resolved and updateUserStats is
\* called
updateUserStats(taskType, bandScore, maxEntries) ==
  /\ StatsSettled
  /\ Len(attempts) < maxEntries
  /\ attempts' = Append(attempts, Entry(taskType, TRUE, bandScore))
  /\ statsArg' = Entry(taskType, TRUE, bandScore)
  /\ statsPc' = "get"
  /\ UNCHANGED <<statsDoc, statsExact, createDenied, recorded>>
  /\ UNCHANGED nonStatsVars

\* saveHistory of an entry without feedback: the stats are not updated
saveHistoryUngraded(taskType, maxEntries) ==
  /\ StatsSettled
  /\ Len(attempts) < maxEntries
  /\ attempts' = Append(attempts, Entry(taskType, FALSE, 0))
  /\ UNCHANGED <<statsDoc, statsExact, statsPc, statsArg, createDenied, recorded>>
  /\ UNCHANGED nonStatsVars

\* updateUserStats, the getDoc resolved: without a document
\* initializeUserStats is called
updateUserStatsRead ==
  /\ statsPc = "get"
  /\ statsPc' = IF statsDoc.exists THEN "update" ELSE "init_get"
  /\ UNCHANGED <<statsDoc, statsExact, statsArg, createDenied, attempts, recorded>>
  /\ UNCHANGED nonStatsVars

\* updateUserStats, the updateDoc resolved
updateUserStatsWrite ==
  /\ statsPc = "update"
  /\ statsDoc' = UpdatedStats(statsDoc, statsArg.taskType, statsArg.bandScore)
  /\ statsExact' = UpdatedExact(statsExact, statsDoc, statsArg.taskType,
                                statsArg.bandScore)
  /\ recorded' = Append(recorded, statsArg)
  /\ statsPc' = "resolved"
  /\ statsArg' = NoEntry
  /\ UNCHANGED <<createDenied, attempts>>
  /\ UNCHANGED nonStatsVars

\* updateUserStats, its getDoc or updateDoc rejected: the catch block rethrows
\* (saveHistory logs it)
updateUserStatsError ==
  /\ statsPc \in {"get", "update"}
  /\ statsPc' = "rejected"
  /\ statsArg' = NoEntry
  /\ UNCHANGED <<statsDoc, statsExact, createDenied, attempts, recorded>>
  /\ UNCHANGED nonStatsVars

\* initializeUserStats, the getDoc resolved; it returns when the document
\* exists, and updateUserStats calls itself
initializeUserStatsRead ==
  /\ statsPc = "init_get"
  /\ statsPc' = IF statsDoc.exists THEN "get" ELSE "init_set"
  /\ UNCHANGED <<statsDoc, statsExact, statsArg, createDenied, attempts, recorded>>
  /\ UNCHANGED nonStatsVars

\* initializeUserStats, the setDoc resolved; updateUserStats calls itself
initializeUserStatsWrite ==
  /\ statsPc = "init_set"
  /\ ~createDenied
  /\ statsDoc' = EmptyStats
  /\ statsExact' = NoExact
  /\ statsPc' = "get"
  /\ UNCHANGED <<statsArg, createDenied, attempts, recorded>>
  /\ UNCHANGED nonStatsVars

\* initializeUserStats, its getDoc or setDoc rejected: the empty catch block
\* swallows it; updateUserStats calls itself
initializeUserStatsError ==
  /\ statsPc \in {"init_get", "init_set"}
  /\ statsPc' = "get"
  /\ UNCHANGED <<statsDoc, statsExact, statsArg, createDenied, attempts, recorded>>
  /\ UNCHANGED nonStatsVars

\* syncUserStatsFromHistory: the query has no orderBy and yields the user's
\* documents in the order of their generated ids; recalculateUserStats
\* overwrites the record
syncUserStatsFromHistory(order) ==
  LET historyData == Permuted(attempts, order)
  IN /\ StatsSettled
     /\ Len(attempts) > 0
     /\ statsDoc.exists \/ ~createDenied
     /\ statsDoc' = Recalculated(historyData)
     /\ statsExact' = RecalculatedExact(historyData)
     /\ recorded' = Graded(attempts)
     /\ statsPc' = "idle"
     /\ UNCHANGED <<statsArg, createDenied, attempts>>
     /\ UNCHANGED nonStatsVars

(***************************************************************************)
(* Signing out and in within one page                                      *)
(***************************************************************************)
\* App's effect when currentUser becomes null: the history state is reset,
\* clearQuotaCache and clearAllCache run; an incrementQuota transaction that
\* has not read the document yet stays in flight for the user who left
signOutEffect(t) ==
  /\ currentUser[t] # NoUser
  /\ lateUser[t] = NoUser
  /\ \/ Idle(t) /\ UNCHANGED lateUser
     \/ /\ op[t] = "increment" /\ pc[t] = "tx_get"
        /\ lateUser' = [lateUser EXCEPT ![t] = currentUser[t]]
  /\ currentUser' = [currentUser EXCEPT ![t] = NoUser]
  /\ op' = [op EXCEPT ![t] = "none"]
  /\ pc' = [pc EXCEPT ![t] = "idle"]
  /\ appHistory' = [appHistory EXCEPT ![t] = <<>>]
  /\ historyLoaded' = [historyLoaded EXCEPT ![t] = FALSE]
  /\ quotaCache' = [quotaCache EXCEPT ![t] = NoCache]
  /\ localStorage' = ClearPrefixed(localStorage)
  /\ sessionStorage' = [sessionStorage EXCEPT ![t] = ClearSession(@)]
  /\ lastMut' = [u \in Users |-> MutAfter(lastMut[u], "clear")]
  /\ detailMut' = [detailMut EXCEPT ![t] =
                     [id \in DetailIds |-> MutAfter(detailMut[t][id], "clear")]]
  /\ UNCHANGED <<today, userDoc, snap, txStale, txAttempts, quotaRet,
                 incOutcome, incBase, incOk, quotaEvents, incRejected>>
  /\ UNCHANGED <<cacheRet, detailRet, lastSetItems, listGen, ackGen>>
  /\ UNCHANGED <<historyDocs, nextDocId, histGen, hsnap, mutDoc>>
  /\ UNCHANGED <<grammarVars, routeVars, statsVars, serviceVars>>

\* App's effect when currentUser becomes a user: initializeQuota is called, and
\* the quota display calls getQuotaUsed; "mount": the display's read, which
\* missed the cache, is answered first
signInEffect(t, u) ==
  /\ currentUser[t] = NoUser
  /\ currentUser' = [currentUser EXCEPT ![t] = u]
  /\ \E first \in {"init", "mount"} :
       /\ first = "mount" => ~CacheHit(t, u)
       /\ op' = [op EXCEPT ![t] = first]
  /\ pc' = [pc EXCEPT ![t] = "get"]
  /\ quotaRet' = [quotaRet EXCEPT ![t] = NoRet]
  /\ UNCHANGED <<today, userDoc, localStorage, lateUser, quotaCache, snap,
                 txStale, txAttempts, incOutcome, incBase, incOk, quotaEvents,
                 incRejected>>
  /\ UNCHANGED nonQuotaVars

\* the transaction of the user who left reads the document, its update
\* function sets quotaCache, and the store commits
incrementQuotaLate(t) ==
  LET u == lateUser[t]
      d == userDoc[u]
      resets == IncrementResets(d, today)
  IN /\ u # NoUser
     /\ NewUsed(d, today) <= MaxUsed
     /\ userDoc' = [userDoc EXCEPT ![u] =
                      [exists |-> TRUE,
                       quotaUsed |-> NewUsed(d, today),
                       lastResetDate |->
                         IF resets THEN today ELSE d.lastResetDate]]
     /\ incBase' = [incBase EXCEPT ![u] = IF resets THEN 0 ELSE @]
     /\ incOk' = [incOk EXCEPT ![u] = IF resets THEN 1 ELSE @ + 1]
     /\ txStale' = [x \in Tabs |->
                       IF currentUser[x] = u /\ pc[x] = "tx_commit"
                       THEN TRUE ELSE txStale[x]]
     /\ quotaCache' = [quotaCache EXCEPT ![t] =
                         [userId |-> u, used |-> NewUsed(d, today)]]
     /\ quotaEvents' = [quotaEvents EXCEPT ![t] = AfterTransaction(FALSE).event]
     /\ incRejected' = [incRejected EXCEPT ![t] = AfterTransaction(FALSE).rejected]
     /\ incOutcome' = [incOutcome EXCEPT ![t] = "ok"]
     /\ lateUser' = [lateUser EXCEPT ![t] = NoUser]
     /\ UNCHANGED <<today, localStorage, currentUser, op, pc, snap, txAttempts,
                    quotaRet>>
     /\ UNCHANGED nonQuotaVars

\* the transaction of the user who left fails before its update function ran
incrementQuotaLateError(t) ==
  /\ lateUser[t] # NoUser
  /\ quotaEvents' = [quotaEvents EXCEPT ![t] = AfterTransaction(TRUE).event]
  /\ incRejected' = [incRejected EXCEPT ![t] = AfterTransaction(TRUE).rejected]
  /\ incOutcome' = [incOutcome EXCEPT ![t] = "unavailable"]
  /\ lateUser' = [lateUser EXCEPT ![t] = NoUser]
  /\ UNCHANGED <<today, userDoc, localStorage, currentUser, quotaCache, op, pc,
                 snap, txStale, txAttempts, quotaRet, incBase, incOk>>
  /\ UNCHANGED nonQuotaVars

\* the writing client's state
clientVars ==
  <<localStorage, quotaVars, cacheVars, historyVars, statsVars, grammarVars,
    routeVars>>

vars == <<clientVars, serviceVars>>

nonAdminVars ==
  <<clientVars, callVars, credVars, timingVars, pagingVars, callerVars>>

nonCallVars ==
  <<clientVars, adminVars, credVars, timingVars, pagingVars, callerVars>>

\* everything but localStorage and the credential store's observations
nonCredVars ==
  <<quotaVars, cacheVars, historyVars, statsVars, grammarVars, routeVars,
    adminVars, callVars, timingVars, pagingVars, callerVars>>

\* everything but the clocked utilities
nonTimingVars ==
  <<clientVars, adminVars, callVars, credVars, pagingVars, callerVars>>

\* everything but localStorage and the paged history list
nonPagingVars ==
  <<quotaVars, cacheVars, historyVars, statsVars, grammarVars, routeVars,
    adminVars, callVars, credVars, timingVars, callerVars>>

nonGateVars == <<nonTimingVars, throttleVars, limiterVars>>

nonThrottleVars == <<nonTimingVars, gateVars, limiterVars>>

nonLimiterVars == <<nonTimingVars, gateVars, throttleVars>>

(***************************************************************************)
(* The credential store called for any user id                             *)
(***************************************************************************)
\* a user id of six characters whose keyHash is negative
LongUid == "user01"

NotRead == [called |-> FALSE, val |-> <<>>]

\* setUserApiKey(userId, apiKey)
storeCredential(userId, apiKey) ==
  /\ localStorage' = secureSetItem(localStorage, ApiKeyKey(userId), apiKey,
                                   userId)
  /\ credUid' = userId
  /\ credValue' = apiKey
  /\ credStored' = TRUE
  /\ credRead' = NotRead
  /\ UNCHANGED nonCredVars

\* getUserApiKey(userId) for the user id of the last call
readCredential ==
  /\ credUid # NoUser
  /\ credRead' = [called |-> TRUE, val |-> getUserApiKey(localStorage, credUid)]
  /\ UNCHANGED <<localStorage, credUid, credValue, credStored>>
  /\ UNCHANGED nonCredVars

\* removeUserApiKey(userId)
dropCredential(userId) ==
  /\ hasItem(localStorage, ApiKeyKey(userId))
  /\ localStorage' = removeItem(localStorage, ApiKeyKey(userId))
  /\ credUid' = userId
  /\ credValue' = <<>>
  /\ credStored' = FALSE
  /\ credRead' = NotRead
  /\ UNCHANGED nonCredVars

(***************************************************************************)
(* The proxy's per-user rate limit (api/gemini)                            *)
(***************************************************************************)
MAX_REQUESTS == 10

WINDOW_MS == 60000

\* checkRateLimit(userId, maxRequests, windowMs): the answer and the store
\* it leaves
checkRateLimit(store, userId, maxRequests, windowMs, now) ==
  LET userLimit == store[userId] IN
  IF ~userLimit.set \/ now > userLimit.resetTime
  THEN [allowed |-> TRUE,
        store |-> [store EXCEPT ![userId] =
                     [set |-> TRUE, count |-> 1,
                      resetTime |-> now + windowMs]]]
  ELSE IF userLimit.count >= maxRequests
  THEN [allowed |-> FALSE, store |-> store]
  ELSE [allowed |-> TRUE,
        store |-> [store EXCEPT ![userId].count = userLimit.count + 1]]

\* the requests let through so far, of all users
ForwardedInAll(log) == Len(log["u1"]) + Len(log["u2"])

\* handler, for a well-formed POST of an authenticated user: 429 when the
\* rate limit refuses, otherwise the request goes to the provider
handlerChecksRateLimit(userId, maxForwarded) ==
  LET checked == checkRateLimit(rateLimitStore, userId, MAX_REQUESTS,
                                WINDOW_MS, serverNow) IN
  /\ ForwardedInAll(forwarded) < maxForwarded
  /\ rateLimitStore' = checked.store
  /\ forwarded' = IF checked.allowed
                  THEN [forwarded EXCEPT ![userId] = Append(@, serverNow)]
                  ELSE forwarded
  /\ lastStatus' = [lastStatus EXCEPT ![userId] =
                      IF checked.allowed THEN 200 ELSE 429]
  /\ UNCHANGED <<serverNow, serverSteps>>
  /\ UNCHANGED nonGateVars

\* time passes on the server
serverTimePasses(ms, maxSteps) ==
  /\ serverSteps < maxSteps
  /\ serverSteps' = serverSteps + 1
  /\ serverNow' = serverNow + ms
  /\ UNCHANGED <<rateLimitStore, forwarded, lastStatus>>
  /\ UNCHANGED nonGateVars

(***************************************************************************)
(* throttle (rateLimiter)                                                  *)
(***************************************************************************)
\* func(...args) runs at the time now
Invoked(log, now) ==
  IF Len(log) < 2 THEN Append(log, now) ELSE <<log[2], now>>

\* throttled(...args)
throttled(delay) ==
  LET now == thrNow IN
  /\ IF now - lastRun >= delay
     THEN /\ invokedAt' = Invoked(invokedAt, now)
          /\ lastRun' = now
          /\ UNCHANGED timeoutId
     ELSE \* clearTimeout(timeoutId), then window.setTimeout
          /\ timeoutId' = [pending |-> TRUE,
                           due |-> now + (delay - (now - lastRun))]
          /\ UNCHANGED <<invokedAt, lastRun>>
  /\ UNCHANGED thrNow
  /\ UNCHANGED nonThrottleVars

\* the callback given to setTimeout runs, at its due time or later
throttleTimerFires ==
  /\ timeoutId.pending
  /\ thrNow >= timeoutId.due
  /\ invokedAt' = Invoked(invokedAt, thrNow)
  /\ lastRun' = thrNow
  /\ timeoutId' = [timeoutId EXCEPT !.pending = FALSE]
  /\ UNCHANGED thrNow
  /\ UNCHANGED nonThrottleVars

\* a millisecond passes
throttleTimePasses(maxTime) ==
  /\ thrNow < ThrottleDelay + maxTime
  /\ thrNow' = thrNow + 1
  /\ UNCHANGED <<lastRun, timeoutId, invokedAt>>
  /\ UNCHANGED nonThrottleVars

(***************************************************************************)
(* RateLimiter (rateLimiter)                                               *)
(***************************************************************************)
\* new RateLimiter(60000, 10)
aiGenerationLimiter == [windowMs |-> 60000, maxRequests |-> 10]

\* userRequests.filter(timestamp => now - timestamp < this.windowMs)
RECURSIVE RecentRequests(_, _, _)
RecentRequests(userRequests, now, windowMs) ==
  IF userRequests = <<>> THEN <<>>
  ELSE LET rest == RecentRequests(Tail(userRequests), now, windowMs) IN
       IF now - Head(userRequests) < windowMs
       THEN <<Head(userRequests)>> \o rest
       ELSE rest

\* recentRequests.length > this.maxRequests
OverLimit(length, maxRequests) == length > maxRequests

\* recentRequests.length >= this.maxRequests
AtLimit(length, maxRequests) == length >= maxRequests

\* isAllowed(key) of the limiter: the answer and the map it leaves
isAllowed(limiter, map, key, now) ==
  LET userRequests == map[key]
      recentRequests == RecentRequests(userRequests, now, limiter.windowMs)
  IN IF AtLimit(Len(recentRequests), limiter.maxRequests)
     THEN [allowed |-> FALSE, requests |-> map]
     ELSE [allowed |-> TRUE,
           requests |-> [map EXCEPT ![key] = Append(recentRequests, now)]]

\* the true answers given so far, to all keys
GrantedInAll(log) == Len(log["u1"]) + Len(log["u2"])

\* aiGenerationLimiter.isAllowed(key)
isAllowedCalled(key, maxGranted) ==
  LET answer == isAllowed(aiGenerationLimiter, requests, key, limNow) IN
  /\ GrantedInAll(granted) < maxGranted
  /\ requests' = answer.requests
  /\ granted' = IF answer.allowed
                THEN [granted EXCEPT ![key] = Append(@, limNow)]
                ELSE granted
  /\ limKey' = key
  /\ limAnswer' = [limAnswer EXCEPT ![key] =
                     [called |-> TRUE, allowed |-> answer.allowed]]
  /\ UNCHANGED <<limNow, limSteps>>
  /\ UNCHANGED nonLimiterVars

\* time passes on the page
limiterTimePasses(ms, maxSteps) ==
  /\ limSteps < maxSteps
  /\ limSteps' = limSteps + 1
  /\ limNow' = limNow + ms
  /\ UNCHANGED <<requests, granted, limKey, limAnswer>>
  /\ UNCHANGED nonLimiterVars

(***************************************************************************)
(* The App's history list with pagination (App, historyService)            *)
(***************************************************************************)
\* the user whose list is shown
PageUser == "u1"

\* the summaries of the documents with the given ids
ItemsOf(ids) == [i \in 1..Len(ids) |-> Item(ids[i], BandOf(ids[i]))]

RECURSIVE StartAfter(_, _)
\* orderBy createdAt desc, startAfter(cursor): the documents older than the
\* cursor document; all of them without a cursor
StartAfter(ids, cursor) ==
  IF cursor = 0 \/ ids = <<>> THEN ids
  ELSE IF Head(ids) < cursor THEN ids
  ELSE StartAfter(Tail(ids), cursor)

\* a page: the list, the cursor and whether more is expected, with the
\* storage getUserHistory leaves
Page(list, cursor, more, storage) ==
  [history |-> list, lastDoc |-> cursor, hasMore |-> more,
   storage |-> storage]

\* how the store answers: the ordered query succeeds, or it fails for want of
\* an index and the unordered one succeeds, or both fail
QueryOutcomes == {"ordered", "fallback", "failed"}

\* getUserHistory(userId, lastDoc)
getUserHistory(storage, docs, userId, cursor, outcome) ==
  LET purged == getCachedHistoryPurge(storage, userId)
      afterCache == IF cursor = 0 THEN purged ELSE storage
      page == Slice(ItemsOf(StartAfter(docs, cursor)), PAGE_SIZE)
      limitedHistory == Slice(ItemsOf(docs), PAGE_SIZE)
  IN IF cursor = 0 /\ getCachedHistoryHit(storage, userId)
     THEN Page(getCachedHistoryData(storage, userId), 0,
               Len(getCachedHistoryData(storage, userId)) >= PAGE_SIZE,
               storage)
     ELSE IF outcome = "ordered"
     THEN Page(page,
               IF Len(page) = 0 THEN 0 ELSE page[Len(page)].id,
               Len(page) >= PAGE_SIZE,
               IF cursor = 0 /\ Len(page) > 0
               THEN setCachedHistoryStore(afterCache, userId, page)
               ELSE afterCache)
     ELSE IF outcome = "fallback"
     THEN Page(limitedHistory, 0, Len(docs) > PAGE_SIZE,
               setCachedHistoryStore(afterCache, userId, limitedHistory))
     ELSE Page(<<>>, 0, FALSE, afterCache)

\* loadUserHistory(loadMore), the query answered as outcome says
pagedLoadUserHistory(loadMore, outcome, maxShown) ==
  LET result == getUserHistory(localStorage, storedHistory, PageUser,
                               IF loadMore THEN lastDoc ELSE 0, outcome)
  IN /\ ~(loadMore /\ ~hasMoreHistory)
     /\ ~(pageLoaded /\ ~loadMore)
     /\ loadMore => Len(pageHistory) + PAGE_SIZE <= maxShown
     /\ localStorage' = result.storage
     /\ pageHistory' = IF loadMore
                       THEN pageHistory \o Ids(result.history)
                       ELSE Ids(result.history)
     /\ lastDoc' = result.lastDoc
     /\ hasMoreHistory' = result.hasMore
     /\ pageLoaded' = TRUE
     /\ UNCHANGED <<storedHistory, nextHistoryId>>
     /\ UNCHANGED nonPagingVars

\* addToHistory(entry) whose saveHistory resolves
pagedAddToHistory(maxSaves) ==
  /\ nextHistoryId <= PAGE_SIZE + 1 + maxSaves
  /\ storedHistory' = <<nextHistoryId>> \o storedHistory
  /\ nextHistoryId' = nextHistoryId + 1
  /\ pageHistory' = <<nextHistoryId>> \o pageHistory
  /\ localStorage' = incrementVersion(localStorage, PageUser)
  /\ pageLoaded' = FALSE
  /\ lastDoc' = 0
  /\ hasMoreHistory' = FALSE
  /\ UNCHANGED nonPagingVars

\* the documents left when the one with the id is deleted
Without(ids, id) == SelectSeq(ids, LAMBDA x : x # id)

\* handleDeleteHistory(index) whose deleteHistory resolves; index counted
\* from 1 here
pagedDeleteHistory(index, maxDeletes) ==
  /\ index \in 1..Len(pageHistory)
  /\ Len(storedHistory) > PAGE_SIZE + 1 - maxDeletes
  /\ storedHistory' = Without(storedHistory, pageHistory[index])
  /\ pageHistory' = RemoveAt(pageHistory, index)
  /\ localStorage' = incrementVersion(localStorage, PageUser)
  /\ pageLoaded' = FALSE
  /\ lastDoc' = 0
  /\ hasMoreHistory' = FALSE
  /\ UNCHANGED <<nextHistoryId>>
  /\ UNCHANGED nonPagingVars

\* the page is loaded again: the App mounts anew, browser storage stays
pageReloaded ==
  /\ pageLoaded
  /\ pageHistory' = <<>>
  /\ pageLoaded' = FALSE
  /\ lastDoc' = 0
  /\ hasMoreHistory' = FALSE
  /\ UNCHANGED <<localStorage, storedHistory, nextHistoryId>>
  /\ UNCHANGED nonPagingVars

(***************************************************************************)
(* Admin dashboard (adminService): the adminStats/global rollup            *)
(* Time is counted in minutes since the local midnight of the run; a band  *)
(* score in half bands.  The averages of the user_stats documents read     *)
(* here are whole half bands, so the products and sums of the rollup are   *)
(* exact in doubles, and a quotient lies on the side of every quarter band *)
(* its exact value lies on.                                                *)
(***************************************************************************)
\* if (ageMinutes < 5)
STALE_MINUTES == 5

WEEK_MINUTES == 7 * 24 * 60

MONTH_MINUTES == 30 * 24 * 60

\* lastAttemptDate: '' or an ISO date, here <<>> or <<minute>>
NoDate == <<>>

DateAt(minute) == <<minute>>

NoUserStats ==
  [exists |-> FALSE, totalAttempts |-> 0, task1Attempts |-> 0,
   task2Attempts |-> 0, avgTask1Score |-> 0, avgTask2Score |-> 0,
   lastAttemptDate |-> NoDate]

UserStatsOf(total, n1, avg1, n2, avg2, last) ==
  [exists |-> TRUE, totalAttempts |-> total, task1Attempts |-> n1,
   task2Attempts |-> n2, avgTask1Score |-> avg1, avgTask2Score |-> avg2,
   lastAttemptDate |-> last]

\* the user_stats documents a user has one after another: the first user one
\* attempt late yesterday, then a second one today; the other user a new
\* document, then three attempts dated more than a month ago
StatHistory(u) ==
  IF u = "u1"
  THEN <<UserStatsOf(1, 1, 13, 0, 0, DateAt(-1)),
         UserStatsOf(2, 1, 13, 1, 17, DateAt(0))>>
  ELSE <<UserStatsOf(0, 0, 0, 0, 0, NoDate),
         UserStatsOf(3, 2, 14, 1, 12, DateAt(-(MONTH_MINUTES + 1)))>>

NoSnapshot == [u \in Users |-> NoUserStats]

RECURSIVE SumOf(_, _)
\* the values of f over the set S added up
SumOf(f, S) ==
  IF S = {} THEN 0
  ELSE LET u == CHOOSE v \in S : TRUE IN f[u] + SumOf(f, S \ {u})

\* roundIELTSScore of total / count half bands, in half bands: the decimal part
\* below 0.25 rounds down, below 0.75 to .5, else up
roundIELTSScore(total, count) ==
  LET quarters == (2 * total) \div count
      integerPart == quarters \div 4
      decimal == quarters % 4
  IN 2 * integerPart + (IF decimal < 1 THEN 0 ELSE IF decimal < 3 THEN 1 ELSE 2)

\* rawAvg > 0 ? roundIELTSScore(rawAvg) : 0, with rawAvg = count > 0 ?
\* total / count : 0
RoundedAverage(total, count) ==
  IF count > 0 /\ total > 0 THEN roundIELTSScore(total, count) ELSE 0

\* the DashboardStats recalculateAdminStats computes from the documents of
\* statsDocs and the size of the users collection at the time now
DashboardStats(statsDocs, totalUsers, now) ==
  LET docs == {u \in DOMAIN statsDocs : statsDocs[u].exists}
      dated == {u \in docs : statsDocs[u].lastAttemptDate # NoDate}
      attemptsOf == [u \in docs |-> statsDocs[u].totalAttempts]
      task1 == {u \in docs : statsDocs[u].task1Attempts > 0}
      task2 == {u \in docs : statsDocs[u].task2Attempts > 0}
      task1Count == SumOf([u \in docs |-> statsDocs[u].task1Attempts], task1)
      task2Count == SumOf([u \in docs |-> statsDocs[u].task2Attempts], task2)
      task1TotalScore ==
        SumOf([u \in docs |->
                 statsDocs[u].avgTask1Score * statsDocs[u].task1Attempts], task1)
      task2TotalScore ==
        SumOf([u \in docs |->
                 statsDocs[u].avgTask2Score * statsDocs[u].task2Attempts], task2)
      sinceToday == {u \in dated : statsDocs[u].lastAttemptDate[1] >= 0}
      sinceWeek ==
        {u \in dated : statsDocs[u].lastAttemptDate[1] >= now - WEEK_MINUTES}
      sinceMonth ==
        {u \in dated : statsDocs[u].lastAttemptDate[1] >= now - MONTH_MINUTES}
  IN [totalUsers |-> totalUsers,
      totalAttempts |-> SumOf(attemptsOf, docs),
      avgBandScoreTask1 |-> RoundedAverage(task1TotalScore, task1Count),
      avgBandScoreTask2 |-> RoundedAverage(task2TotalScore, task2Count),
      todayAttempts |-> SumOf(attemptsOf, sinceToday),
      weekAttempts |-> SumOf(attemptsOf, sinceWeek),
      monthAttempts |-> SumOf(attemptsOf, sinceMonth),
      activeToday |-> Cardinality(sinceToday),
      activeWeek |-> Cardinality(sinceWeek),
      task1Attempts |-> task1Count,
      task2Attempts |-> task2Count,
      lastUpdated |-> now]

\* usersSnapshot.size
UsersSize == Cardinality({u \in Users : userDoc[u].exists})

NoDashboardStats == DashboardStats(NoSnapshot, 0, 0)

\* no document adminStats/global
NoAdminStats == [exists |-> FALSE, data |-> NoDashboardStats]

AdminStatsDoc(stats) == [exists |-> TRUE, data |-> stats]

NoSeen == [read |-> FALSE, doc |-> NoAdminStats, at |-> 0]

NoWritten == [doc |-> NoAdminStats, at |-> 0]

\* a rollup of exactly 5 minutes still counted as fresh
IsFreshWithin(doc, now) ==
  doc.exists /\ now - doc.data.lastUpdated <= STALE_MINUTES

\* the rollup is returned as it is stored: less than 5 minutes passed from
\* data.lastUpdated to now
IsFresh(doc, now) ==
  doc.exists /\ now - doc.data.lastUpdated < STALE_MINUTES

AdminSettled == adminPc \in {"idle", "resolved", "rejected"}

adminCallVars ==
  <<adminOp, adminPc, adminSeen, statsSnapshot, adminPayload, adminWritten,
    adminResult>>

\* a minute passes
Tick(maxClock) ==
  /\ clock < maxClock
  /\ clock' = clock + 1
  /\ UNCHANGED <<userStatsColl, adminStats, adminCallVars>>
  /\ UNCHANGED nonAdminVars

\* a user's statistics document is created or updated
userStatsWritten(u) ==
  /\ \E i \in 1..Len(StatHistory(u)) :
       /\ userStatsColl[u] = (IF i = 1 THEN NoUserStats ELSE StatHistory(u)[i - 1])
       /\ userStatsColl' = [userStatsColl EXCEPT ![u] = StatHistory(u)[i]]
  /\ UNCHANGED <<clock, adminStats, adminCallVars>>
  /\ UNCHANGED nonAdminVars

\* the recalculation of another admin session is stored; its clock is skew
\* minutes ahead
otherSessionRecalculated(skew) ==
  /\ adminStats' =
       AdminStatsDoc(DashboardStats(userStatsColl, UsersSize, clock + skew))
  /\ adminStats' # adminStats
  /\ UNCHANGED <<clock, userStatsColl, adminCallVars>>
  /\ UNCHANGED nonAdminVars

BeginAdminCall(name, at) ==
  /\ AdminSettled
  /\ adminOp' = name
  /\ adminPc' = at
  /\ adminSeen' = NoSeen
  /\ statsSnapshot' = NoSnapshot
  /\ adminPayload' = NoAdminStats
  /\ adminWritten' = NoWritten
  /\ adminResult' = NoDashboardStats
  /\ UNCHANGED <<clock, userStatsColl, adminStats>>
  /\ UNCHANGED nonAdminVars

\* AdminDashboard loads: getDashboardStats is called
getDashboardStats == BeginAdminCall("getDashboardStats", "get")

\* AdminDashboard's refresh: recalculateAdminStats is called
recalculateAdminStats == BeginAdminCall("recalculateAdminStats", "scan_stats")

\* getDashboardStats, the getDoc resolved: a fresh rollup is returned, else
\* recalculateAdminStats is called
getDashboardStatsRead ==
  /\ adminPc = "get"
  /\ adminSeen' = [read |-> TRUE, doc |-> adminStats, at |-> clock]
  /\ IF IsFresh(adminStats, clock)
     THEN adminPc' = "resolved" /\ adminResult' = adminStats.data
     ELSE adminPc' = "scan_stats" /\ UNCHANGED adminResult
  /\ UNCHANGED <<clock, userStatsColl, adminStats, adminOp, statsSnapshot,
                 adminPayload, adminWritten>>
  /\ UNCHANGED nonAdminVars

\* recalculateAdminStats, getDocs(user_stats) resolved
recalculateAdminStatsScan ==
  /\ adminPc = "scan_stats"
  /\ statsSnapshot' = userStatsColl
  /\ adminPc' = "scan_users"
  /\ UNCHANGED <<clock, userStatsColl, adminStats, adminOp, adminSeen,
                 adminPayload, adminWritten, adminResult>>
  /\ UNCHANGED nonAdminVars

\* recalculateAdminStats, getDocs(users) resolved: the stats are computed and
\* handed to setDoc with Timestamp.now()
recalculateAdminStatsCompute ==
  /\ adminPc = "scan_users"
  /\ adminPayload' =
       AdminStatsDoc(DashboardStats(statsSnapshot, UsersSize, clock))
  /\ adminPc' = "set"
  /\ UNCHANGED <<clock, userStatsColl, adminStats, adminOp, adminSeen,
                 statsSnapshot, adminWritten, adminResult>>
  /\ UNCHANGED nonAdminVars

\* recalculateAdminStats, the setDoc resolved: stats is returned
recalculateAdminStatsWrite ==
  /\ adminPc = "set"
  /\ adminStats' = adminPayload
  /\ adminWritten' = [doc |-> adminPayload, at |-> clock]
  /\ adminResult' = adminPayload.data
  /\ adminPc' = "resolved"
  /\ UNCHANGED <<clock, userStatsColl, adminOp, adminSeen, statsSnapshot,
                 adminPayload>>
  /\ UNCHANGED nonAdminVars

\* a getDoc, getDocs or setDoc of the call rejected: the catch blocks rethrow
adminCallError ==
  /\ adminPc \in {"get", "scan_stats", "scan_users", "set"}
  /\ adminPc' = "rejected"
  /\ UNCHANGED <<clock, userStatsColl, adminStats, adminOp, adminSeen,
                 statsSnapshot, adminPayload, adminWritten, adminResult>>
  /\ UNCHANGED nonAdminVars

(***************************************************************************)
(* Failures of a generation or evaluation call, on the direct transport    *)
(* (handleApiError) and through the server proxy (handler, then            *)
(* makeProxyRequest).  A JavaScript value is a record with its type; a     *)
(* text is a string, and Phrases lists which of the searched phrases it    *)
(* contains.                                                               *)
(***************************************************************************)
Undef == [type |-> "undefined", num |-> 0, str |-> ""]

Num(n) == [type |-> "number", num |-> n, str |-> ""]

Str(s) == [type |-> "string", num |-> 0, str |-> s]

Truthy(v) ==
  \/ v.type = "number" /\ v.num # 0
  \/ v.type = "string" /\ v.str # ""

\* a || b
OrElse(a, b) == IF Truthy(a) THEN a ELSE b

\* the messages of handleApiError
RateLimited ==
  "API quota exceeded. Please wait a few minutes or use your own API key."

AuthFailed == "API authentication failed. Please check your API key."

BadRequest == "Invalid request. Please try again with different input."

ServiceUnavailable ==
  "API service temporarily unavailable. Please try again later."

NetworkError ==
  "Network connection failed. Please check your internet connection."

Unknown == "An unexpected error occurred. Please try again."

Taxonomy ==
  {RateLimited, AuthFailed, BadRequest, ServiceUnavailable, NetworkError,
   Unknown}

\* the HTTP statuses the provider answers a failed call with
ProviderStatuses == {400, 401, 403, 404, 429, 500, 503}

\* the status name in the provider's error body
StatusName(status) ==
  CASE status = 400 -> "INVALID_ARGUMENT"
    [] status = 401 -> "UNAUTHENTICATED"
    [] status = 403 -> "PERMISSION_DENIED"
    [] status = 404 -> "NOT_FOUND"
    [] status = 429 -> "RESOURCE_EXHAUSTED"
    [] status = 500 -> "INTERNAL"
    [] status = 503 -> "UNAVAILABLE"

\* the message in the provider's error body
ProviderText(status) ==
  CASE status = 400 -> "Invalid JSON payload received."
    [] status = 401 -> "Request had invalid authentication credentials."
    [] status = 403 -> "The caller does not have permission"
    [] status = 404 -> "models/gemini-2.5-flash is not found"
    [] status = 429 -> "You exceeded your current quota, please check your plan."
    [] status = 500 -> "An internal error has occurred."
    [] status = 503 -> "The model is overloaded. Please try again later."

\* which of the phrases the code searches for a text contains
Phrases(text) ==
  CASE text = ProviderText(401) -> {"authentication"}
    [] text = ProviderText(429) -> {"quota"}
    [] text \in {"Failed to fetch", "fetch failed"} -> {"fetch"}
    [] text = "Rate limit exceeded" -> {"Rate limit"}
    [] text = RateLimited -> {"quota"}
    [] text = AuthFailed -> {"authentication"}
    [] OTHER -> {}

\* v?.includes(phrase) for a string v
Includes(v, phrase) == v.type = "string" /\ phrase \in Phrases(v.str)

NoError ==
  [innerCode |-> Undef, innerMessage |-> Undef, innerStatus |-> Undef,
   code |-> Undef, status |-> Undef, message |-> Undef]

\* new Error(text), a TypeError of fetch included
ErrorOf(text) == [NoError EXCEPT !.message = Str(text)]

\* the SDK's error for a failed call: the HTTP status and the body's message
ApiError(status) ==
  [NoError EXCEPT !.status = Num(status),
                  !.message = Str(ProviderText(status))]

\* the provider's error body thrown as it is: {error: {code, message, status}}
BodyError(status) ==
  [NoError EXCEPT !.innerCode = Num(status),
                  !.innerMessage = Str(ProviderText(status)),
                  !.innerStatus = Str(StatusName(status))]

\* handleApiError: the message of the Error it throws
handleApiError(error) ==
  LET errorCode == OrElse(OrElse(error.innerCode, error.code), error.status)
      errorMessage ==
        OrElse(OrElse(OrElse(error.innerMessage, error.message),
                      error.innerStatus), Str(""))
      errorStatus == OrElse(OrElse(error.innerStatus, error.status), Str(""))
      IsCode(n) == errorCode = Num(n)
  IN IF \/ errorStatus = Str("RESOURCE_EXHAUSTED")
        \/ Includes(errorMessage, "quota")
        \/ Includes(errorMessage, "RESOURCE_EXHAUSTED")
     THEN RateLimited
     ELSE IF Truthy(errorCode)
     THEN IF IsCode(429) THEN RateLimited
          ELSE IF IsCode(401) \/ IsCode(403) THEN AuthFailed
          ELSE IF IsCode(400) THEN BadRequest
          ELSE IF IsCode(500) \/ IsCode(503) THEN ServiceUnavailable
          ELSE "API error: Service temporarily unavailable."
     ELSE IF Includes(errorMessage, "fetch") \/ Includes(errorMessage, "network")
     THEN NetworkError
     ELSE Unknown

\* what can fail on the direct transport: the provider answers with an error
\* status (thrown in either shape), the request does not get through, or the
\* reply has no text
DirectFailures ==
  [transport : {"direct"}, at : {"provider", "body"}, status : ProviderStatuses]
    \cup [transport : {"direct"}, at : {"fetch", "empty"}, status : {0}]

\* what can fail on the proxied transport: no signed-in user, the request to
\* the proxy does not get through, the proxy rejects the token, limits the
\* rate, has no credential, does not reach the provider, the provider answers
\* with an error status (with or without a message), or the reply has no text
ProxyFailures ==
  [transport : {"proxy"}, at : {"provider", "bare"}, status : ProviderStatuses]
    \cup [transport : {"proxy"},
          at : {"token", "fetch", "verify", "ratelimit", "nokey", "upstream",
                "empty"},
          status : {0}]

Failures == DirectFailures \cup ProxyFailures

NoFailure == [transport |-> "none", at |-> "none", status |-> 0]

\* generateTask1Prompt and generateTask2Prompt throw the first text on an
\* empty reply, evaluateWriting the second
EmptyReplyText(operation) ==
  IF operation = "evaluateWriting" THEN "Failed to evaluate"
  ELSE "No response from AI"

\* the error caught on the direct transport
DirectError(failure, operation) ==
  CASE failure.at = "provider" -> ApiError(failure.status)
    [] failure.at = "body" -> BodyError(failure.status)
    [] failure.at = "fetch" -> ErrorOf("Failed to fetch")
    [] failure.at = "empty" -> ErrorOf(EmptyReplyText(operation))

NoResponse == [status |-> 0, error |-> "", message |-> ""]

Response(status, error, message) ==
  [status |-> status, error |-> error, message |-> message]

\* the proxy's handler: the response to a request that fails at the server
handler(failure) ==
  CASE failure.at = "verify" ->
         Response(500, "Internal server error", "Invalid token format")
    [] failure.at = "ratelimit" ->
         Response(429, "Rate limit exceeded",
                  "Too many requests. Please wait a moment before trying again.")
    [] failure.at = "nokey" ->
         Response(500, "API key not configured on server", "")
    [] failure.at = "upstream" ->
         Response(500, "Internal server error", "fetch failed")
    [] failure.at = "provider" ->
         Response(failure.status, "API request failed",
                  ProviderText(failure.status))
    [] failure.at = "bare" ->
         Response(failure.status, "API request failed",
                  "Failed to generate content")

\* makeProxyRequest's catch block: the message of the Error it throws for the
\* message of the error caught
makeProxyRequestCatch(message) ==
  IF Includes(Str(message), "Rate limit")
  THEN "Rate limit exceeded. Please wait a moment before trying again."
  ELSE IF Includes(Str(message), "quota")
  THEN "API quota exceeded. Please try again later."
  ELSE IF Includes(Str(message), "authentication")
          \/ Includes(Str(message), "Unauthorized")
  THEN "Authentication failed. Please log in again."
  ELSE IF message # "" THEN message ELSE "An unexpected error occurred"

\* errorData.message || errorData.error || 'API request failed'
ResponseErrorText(response) ==
  IF response.message # "" THEN response.message
  ELSE IF response.error # "" THEN response.error
  ELSE "API request failed"

CallSettled == callPc \in {"idle", "thrown"}

\* a generation or evaluation call that is going to fail in some way
failingCall(operation, failure) ==
  /\ CallSettled
  /\ callOp' = operation
  /\ callFailure' = failure
  /\ callPc' = IF failure.transport = "direct" THEN "direct"
               ELSE IF failure.at = "token" THEN "token"
               ELSE IF failure.at = "fetch" THEN "fetch"
               ELSE IF failure.at = "empty" THEN "empty"
               ELSE "server"
  /\ httpResponse' = NoResponse
  /\ surfaced' = ""
  /\ UNCHANGED nonCallVars

\* the direct transport: the catch block hands the error to handleApiError
directCallFails ==
  /\ callPc = "direct"
  /\ surfaced' = handleApiError(DirectError(callFailure, callOp))
  /\ callPc' = "thrown"
  /\ UNCHANGED <<callOp, callFailure, httpResponse>>
  /\ UNCHANGED nonCallVars

\* the proxy answers the request with an error status
handlerResponds ==
  /\ callPc = "server"
  /\ httpResponse' = handler(callFailure)
  /\ callPc' = "response"
  /\ UNCHANGED <<callOp, callFailure, surfaced>>
  /\ UNCHANGED nonCallVars

\* makeProxyRequest: the response is not ok
makeProxyRequestNotOk ==
  /\ callPc = "response"
  /\ surfaced' = makeProxyRequestCatch(ResponseErrorText(httpResponse))
  /\ callPc' = "thrown"
  /\ UNCHANGED <<callOp, callFailure, httpResponse>>
  /\ UNCHANGED nonCallVars

\* makeProxyRequest: getAuthToken or fetch throws
makeProxyRequestThrows ==
  /\ callPc \in {"token", "fetch"}
  /\ surfaced' = makeProxyRequestCatch(IF callPc = "token"
                                       THEN "User not authenticated"
                                       ELSE "Failed to fetch")
  /\ callPc' = "thrown"
  /\ UNCHANGED <<callOp, callFailure, httpResponse>>
  /\ UNCHANGED nonCallVars

\* the proxied call: makeProxyRequest returned no text
proxyCallEmpty ==
  /\ callPc = "empty"
  /\ surfaced' = EmptyReplyText(callOp)
  /\ callPc' = "thrown"
  /\ UNCHANGED <<callOp, callFailure, httpResponse>>
  /\ UNCHANGED nonCallVars


EmptyStorage == [k \in {} |-> <<>>]

\* no statistics call under way; denied is how the store treats creates
StatsStart(denied) ==
  /\ statsDoc = NoStats
  /\ statsExact = NoExact
  /\ statsPc = "idle"
  /\ statsArg = NoEntry
  /\ createDenied = denied
  /\ attempts = <<>>
  /\ recorded = <<>>

StatsAtRest == StatsStart(FALSE)

\* no admin call under way, no rollup stored, no statistics documents
AdminAtRest ==
  /\ clock = 0
  /\ userStatsColl = NoSnapshot
  /\ adminStats = NoAdminStats
  /\ adminOp = "none"
  /\ adminPc = "idle"
  /\ adminSeen = NoSeen
  /\ statsSnapshot = NoSnapshot
  /\ adminPayload = NoAdminStats
  /\ adminWritten = NoWritten
  /\ adminResult = NoDashboardStats

\* no generation or evaluation call made
CallsAtRest ==
  /\ callOp = "none"
  /\ callFailure = NoFailure
  /\ callPc = "idle"
  /\ httpResponse = NoResponse
  /\ surfaced = ""

\* the credential store not called yet
CredentialAtRest ==
  /\ credUid = NoUser
  /\ credValue = <<>>
  /\ credStored = FALSE
  /\ credRead = NotRead

\* rateLimitStore of a server instance that has just started
NoLimit == [set |-> FALSE, count |-> 0, resetTime |-> 0]

GateAtRest ==
  /\ serverNow = 0
  /\ serverSteps = 0
  /\ rateLimitStore = [u \in Users |-> NoLimit]
  /\ forwarded = [u \in Users |-> <<>>]
  /\ lastStatus = [u \in Users |-> 0]

\* no timer was ever set
NoTimer == [pending |-> FALSE, due |-> 0]

\* throttle(func, delay) has just been applied; the clock reads a time that
\* is at least delay after the epoch
ThrottleAtRest ==
  /\ thrNow = ThrottleDelay
  /\ lastRun = 0
  /\ timeoutId = NoTimer
  /\ invokedAt = <<>>

NotCalled == [called |-> FALSE, allowed |-> FALSE]

\* new RateLimiter(windowMs, maxRequests)
LimiterAtRest ==
  /\ limNow = 0
  /\ limSteps = 0
  /\ requests = [key \in Users |-> <<>>]
  /\ granted = [key \in Users |-> <<>>]
  /\ limKey = NoUser
  /\ limAnswer = [key \in Users |-> NotCalled]

TimingAtRest == GateAtRest /\ ThrottleAtRest /\ LimiterAtRest

\* the App just mounted: nothing loaded
AppMounted ==
  /\ pageHistory = <<>>
  /\ pageLoaded = FALSE
  /\ lastDoc = 0
  /\ hasMoreHistory = FALSE

\* the ids n, n-1, ..., 1
IdsDown(n) == [i \in 1..n |-> (n + 1) - i]

\* the user has saved n entries
PagingStart(n) ==
  /\ storedHistory = IdsDown(n)
  /\ nextHistoryId = n + 1
  /\ AppMounted

PagingAtRest == PagingStart(0)

\* incrementQuota not called yet
CallerAtRest == cacheBefore = [t \in Tabs |-> NoCache]

ServicesAtRest ==
  AdminAtRest /\ CallsAtRest /\ CredentialAtRest /\ TimingAtRest
  /\ PagingAtRest /\ CallerAtRest

\* every tab signed in as the same user
SameUser == [t \in Tabs |-> "u1"]

\* the record initializeQuota or incrementQuota left today
DocToday(used) == [exists |-> TRUE, quotaUsed |-> used, lastResetDate |-> 0]

\* the quota governor with every tab at startOp/startPc
QuotaStart(users, docs, startOp, startPc) ==
  /\ today = 0
  /\ userDoc = docs
  /\ currentUser = users
  /\ lateUser = [t \in Tabs |-> NoUser]
  /\ quotaCache = [t \in Tabs |-> NoCache]
  /\ op = [t \in Tabs |-> startOp]
  /\ pc = [t \in Tabs |-> startPc]
  /\ snap = [t \in Tabs |-> NoSnap]
  /\ txStale = [t \in Tabs |-> FALSE]
  /\ txAttempts = [t \in Tabs |-> IF startPc = "tx_get" THEN 1 ELSE 0]
  /\ quotaRet = [t \in Tabs |-> NoRet]
  /\ incOutcome = [t \in Tabs |-> IF startPc = "tx_get" THEN "pending" ELSE "none"]
  /\ incBase = [u \in Users |-> docs[u].quotaUsed]
  /\ incOk = [u \in Users |-> 0]
  /\ quotaEvents = [t \in Tabs |-> FALSE]
  /\ incRejected = [t \in Tabs |-> FALSE]

CacheAtRest ==
  /\ sessionStorage = [t \in Tabs |-> EmptyStorage]
  /\ cacheRet = NoRetList
  /\ detailRet = NoRetDetail
  /\ lastMut = [u \in Users |-> "none"]
  /\ lastSetItems = [u \in Users |-> NoData]
  /\ detailMut = [t \in Tabs |-> [id \in DetailIds |-> "none"]]
  /\ listGen = [u \in Users |-> 0]
  /\ ackGen = [u \in Users |-> 0]

HistoryAtRest ==
  /\ historyDocs = [id \in DocIds |-> NoUser]
  /\ nextDocId = 1
  /\ histGen = [u \in Users |-> 0]
  /\ appHistory = [t \in Tabs |-> <<>>]
  /\ historyLoaded = [t \in Tabs |-> FALSE]
  /\ hsnap = [t \in Tabs |-> NoHSnap]
  /\ mutDoc = [t \in Tabs |-> NoMut]

GrammarAtRest ==
  /\ gReq = [transport |-> "proxy", hasKey |-> FALSE,
             reply |-> [fail |-> TRUE, text |-> "none", value |-> JsonNull]]
  /\ gRes = NoResult

RouteAtRest ==
  /\ lastRoute = [t \in Tabs |-> NoRoute]
  /\ lastCredOp = [u \in Users |-> "none"]


QuotaAtRest(users, docs) == QuotaStart(users, docs, "none", "idle")

NoDocs == [u \in Users |-> NoDoc]

\* the first user's record holds a count of today, the other user has none
DocsWith(used) == [u \in Users |-> IF u = "u1" THEN DocToday(used) ELSE NoDoc]

(***************************************************************************)
(* Specification: incrementQuota calls of several tabs on one record       *)
(***************************************************************************)
InitIncrement ==
  /\ \E used \in 0..MAX_DEFAULT_QUOTA : QuotaAtRest(SameUser, DocsWith(used))
  /\ localStorage = EmptyStorage
  /\ CacheAtRest /\ HistoryAtRest /\ GrammarAtRest /\ RouteAtRest /\ StatsAtRest /\ ServicesAtRest

NextIncrement ==
  \/ \E t \in Tabs : incrementQuota(t)
  \/ \E t \in Tabs : incrementQuotaRead(t)
  \/ \E t \in Tabs : incrementQuotaCommit(t)
  \/ \E t \in Tabs : incrementQuotaConflict(t)
  \/ \E t \in Tabs : incrementQuotaError(t)

SpecIncrement == InitIncrement /\ [][NextIncrement]_vars

(***************************************************************************)
(* Specification: every tab calls incrementQuota at the same moment        *)
(***************************************************************************)
InitConcurrent ==
  /\ \E used \in 0..MAX_DEFAULT_QUOTA :
       QuotaStart(SameUser, DocsWith(used), "increment", "tx_get")
  /\ localStorage = EmptyStorage
  /\ CacheAtRest /\ HistoryAtRest /\ GrammarAtRest /\ RouteAtRest /\ StatsAtRest /\ ServicesAtRest

NextConcurrent ==
  \/ \E t \in Tabs : incrementQuotaRead(t)
  \/ \E t \in Tabs : incrementQuotaCommit(t)
  \/ \E t \in Tabs : incrementQuotaConflict(t)
  \/ \E t \in Tabs : incrementQuotaError(t)

SpecConcurrent == InitConcurrent /\ [][NextConcurrent]_vars

(***************************************************************************)
(* Specification: the quota governor as the pages drive it                 *)
(***************************************************************************)
InitQuota ==
  /\ QuotaStart(SameUser, NoDocs, "init", "get")
  /\ localStorage = EmptyStorage
  /\ CacheAtRest /\ HistoryAtRest /\ GrammarAtRest /\ RouteAtRest /\ StatsAtRest /\ ServicesAtRest

NextQuota ==
  \/ DayTick
  \/ \E t \in Tabs : PageLoad(t)
  \/ \E t \in Tabs : InitializeQuotaRead(t)
  \/ \E t \in Tabs : InitializeQuotaWrite(t)
  \/ \E t \in Tabs : InitializeQuotaError(t)
  \/ \E t \in Tabs : getQuotaUsed(t)
  \/ \E t \in Tabs : getQuotaUsedRead(t)
  \/ \E t \in Tabs : getQuotaUsedReset(t)
  \/ \E t \in Tabs : getQuotaUsedError(t)
  \/ \E t \in Tabs : handleGenerate(t)
  \/ \E t \in Tabs : handleGenerateDone(t)
  \/ \E t \in Tabs : handleGenerateFailed(t)
  \/ \E t \in Tabs : incrementQuotaRead(t)
  \/ \E t \in Tabs : incrementQuotaCommit(t)
  \/ \E t \in Tabs : incrementQuotaConflict(t)
  \/ \E t \in Tabs : incrementQuotaError(t)

SpecQuota == InitQuota /\ [][NextQuota]_vars

(***************************************************************************)
(* Specification: the list cache called in any order, on any list          *)
(***************************************************************************)
InitCacheApi ==
  /\ QuotaAtRest(SameUser, NoDocs)
  /\ localStorage = EmptyStorage
  /\ CacheAtRest /\ HistoryAtRest /\ GrammarAtRest /\ RouteAtRest /\ StatsAtRest /\ ServicesAtRest

NextCacheApi ==
  \/ \E u \in Users : getCachedHistory(u)
  \/ \E u \in Users, n \in ListLens : setCachedHistory(u, n)
  \/ \E u \in Users : invalidateHistoryCache(u)

SpecCacheApi == InitCacheApi /\ [][NextCacheApi]_vars

(***************************************************************************)
(* Specification: both caches are filled, read and cleared                 *)
(***************************************************************************)
\* sessionStorage is private to a tab: the detail cache is read and written
\* in this tab, while every tab may run clearAllCache
DetailTab == 1

NextCacheClear ==
  \/ \E u \in Users : getCachedHistory(u)
  \/ \E u \in Users : setCachedHistory(u, 1)
  \/ \E id \in DetailIds : getCachedHistoryDetail(DetailTab, id)
  \/ \E id \in DetailIds : setCachedHistoryDetail(DetailTab, id)
  \/ \E t \in Tabs : clearAllCache(t)

SpecCacheClear == InitCacheApi /\ [][NextCacheClear]_vars

(***************************************************************************)
(* Specification: history loads, saves and deletes of several tabs         *)
(***************************************************************************)
InitCache ==
  /\ QuotaAtRest(SameUser, NoDocs)
  /\ localStorage = EmptyStorage
  /\ CacheAtRest /\ HistoryAtRest /\ GrammarAtRest /\ RouteAtRest /\ StatsAtRest /\ ServicesAtRest

NextCache ==
  \/ \E t \in Tabs : loadUserHistory(t)
  \/ \E t \in Tabs : historyQueryServed(t)
  \/ \E t \in Tabs : historyQueryResolved(t)
  \/ \E t \in Tabs : historyQueryFailed(t)
  \/ \E t \in Tabs : addToHistory(t)
  \/ \E t \in Tabs : saveHistoryAdded(t)
  \/ \E t \in Tabs : saveHistoryResolved(t)
  \/ \E t \in Tabs : saveHistoryFailed(t)
  \/ \E t \in Tabs, index \in 1..(2 * MaxDocs) : handleDeleteHistory(t, index)
  \/ \E t \in Tabs : deleteHistoryApplied(t)
  \/ \E t \in Tabs : deleteHistoryResolved(t)
  \/ \E t \in Tabs : deleteHistoryFailed(t)

SpecCache == InitCache /\ [][NextCache]_vars

(***************************************************************************)
(* Specification: checkGrammar on every reply, on both transports          *)
(***************************************************************************)
InitGrammar ==
  /\ QuotaAtRest(SameUser, NoDocs)
  /\ localStorage = EmptyStorage
  /\ CacheAtRest /\ HistoryAtRest /\ RouteAtRest /\ StatsAtRest /\ ServicesAtRest
  /\ gReq \in Requests
  /\ gRes = NoResult

NextGrammar == performCheck \/ checkGrammarProxy \/ checkGrammarDirect

SpecGrammar == InitGrammar /\ [][NextGrammar]_vars

(***************************************************************************)
(* Specification: adapter calls while credentials are stored and removed   *)
(***************************************************************************)
InitRouting ==
  /\ \E users \in [Tabs -> Users \cup {NoUser}] : QuotaAtRest(users, NoDocs)
  /\ localStorage = EmptyStorage
  /\ CacheAtRest /\ HistoryAtRest /\ GrammarAtRest /\ RouteAtRest /\ StatsAtRest /\ ServicesAtRest

NextRouting ==
  \/ \E t \in Tabs : adapterCall(t)
  \/ \E t \in Tabs, apiKey \in Credentials : setUserApiKey(t, apiKey)
  \/ \E t \in Tabs : removeUserApiKey(t)

SpecRouting == InitRouting /\ [][NextRouting]_vars


(***************************************************************************)
(* Properties of the quota governor                                        *)
(***************************************************************************)
\* every call of the race has settled, none because the store was unreachable
RaceSettled ==
  \A t \in Tabs : Idle(t) /\ incOutcome[t] \in {"ok", "exhausted"}

\* C1: starting from quotaUsed = cap - 1 with no custom credential, of two
\* incrementQuota calls made at the same moment on the same day exactly one
\* succeeds, the stored count ends at the cap and is never cap + 1, so that
\* canMakeRequest reports false afterwards
C1_ExactlyOneIncrementSucceeds ==
  \A u \in Users :
    (incBase[u] = MAX_DEFAULT_QUOTA - 1 /\ ~isUsingCustomApiKey(localStorage, u)) =>
      /\ userDoc[u].quotaUsed <= MAX_DEFAULT_QUOTA
      /\ RaceSettled =>
           /\ incOk[u] = 1
           /\ userDoc[u].quotaUsed = MAX_DEFAULT_QUOTA

\* C2: for every user who never stored a custom credential the stored
\* quotaUsed is at most the cap, whatever the interleaving of the generate
\* actions of one or more tabs
C2_StoredQuotaWithinCap ==
  \A u \in Users :
    (lastCredOp[u] = "none" /\ ~isUsingCustomApiKey(localStorage, u)) =>
      userDoc[u].quotaUsed <= MAX_DEFAULT_QUOTA

\* C3: whenever the stored lastResetDate differs from today's Jakarta date,
\* a getQuotaUsed call returns 0, whatever the in-memory cache held
C3_StaleRecordReadsZero ==
  \A t \in Tabs :
    (quotaRet[t].called /\ quotaRet[t].stale) => quotaRet[t].val = 0

\* C3, the incrementQuota half: a call that commits on a record of another
\* day leaves quotaUsed at 1
C3_StaleRecordIncrementsToOne ==
  [][\A t \in Tabs :
       (pc[t] = "tx_commit" /\ incOutcome'[t] = "ok" /\ pc'[t] = "idle"
          /\ snap[t].doc.exists
          /\ shouldResetQuota(snap[t].doc.lastResetDate, snap[t].date))
         => userDoc'[currentUser[t]].quotaUsed = 1]_vars

\* C4: the stored quotaUsed after interleaved incrementQuota calls of one day
\* equals the starting value plus the number of calls that succeeded
C4_StoredIsStartPlusSuccesses ==
  \A u \in Users :
    userDoc[u].exists => userDoc[u].quotaUsed = incBase[u] + incOk[u]

\* a commit was refused, the transaction ran again, and calls succeeded
C4_Witness ==
  /\ incOk["u1"] >= 2
  /\ \E t \in Tabs : incOutcome[t] = "ok" /\ txAttempts[t] = 2


(***************************************************************************)
(* Properties of the result cache                                          *)
(***************************************************************************)
\* C5: after a save or delete and its invalidation, no later getCachedHistory
\* returns a list that was fetched before that mutation, whatever the
\* interleaving of a first-page fetch with the mutation and invalidation
C5_NoListFromBeforeInvalidatedMutation ==
  (cacheRet.called /\ cacheRet.hit) => cacheRet.gen >= cacheRet.ack

\* C8: after both caches were populated and clearAllCache ran, every later
\* getCachedHistory and getCachedHistoryDetail misses until a new set, for
\* every user id and record id
C8_ClearedCachesMiss ==
  /\ (cacheRet.called /\ cacheRet.after \in {"clear", "set_clear"})
       => ~cacheRet.hit
  /\ (detailRet.called /\ detailRet.after \in {"clear", "set_clear"})
       => ~detailRet.hit

\* both caches were populated, cleared, and read again
C8_Witness ==
  /\ cacheRet.called /\ cacheRet.after = "set_clear"
  /\ detailRet.called /\ detailRet.after = "set_clear"

\* C9: after setCachedHistory(u, items) and then invalidateHistoryCache(u),
\* the next getCachedHistory(u) misses and removes the stale stored entry
C9_InvalidatedListMisses ==
  (cacheRet.called /\ cacheRet.after = "set_invalidate") =>
    (~cacheRet.hit /\ ~cacheRet.left)

\* a non-empty list was set, invalidated, and read
C9_Witness ==
  /\ cacheRet.called /\ cacheRet.after = "set_invalidate"
  /\ Len(cacheRet.items) > 0

\* C10 as stated: for every item list, setCachedHistory and then
\* getCachedHistory with no invalidation in between returns exactly the items
\* passed
C10_GetReturnsItemsPassed ==
  (cacheRet.called /\ cacheRet.after = "set") =>
    (cacheRet.hit /\ cacheRet.data = cacheRet.items)

\* C10 amended: setCachedHistory and then getCachedHistory with no
\* invalidation in between returns the first MAX_CACHED_ITEMS items of the
\* list passed, in order (the whole list when it is no longer than that)
C10_GetReturnsFirstItemsPassed ==
  (cacheRet.called /\ cacheRet.after = "set") =>
    /\ cacheRet.hit
    /\ Len(cacheRet.data) =
         (IF Len(cacheRet.items) > MAX_CACHED_ITEMS
          THEN MAX_CACHED_ITEMS ELSE Len(cacheRet.items))
    /\ \A i \in 1..Len(cacheRet.data) : cacheRet.data[i] = cacheRet.items[i]

\* a list longer than the cache keeps was set and read
C10_Witness ==
  /\ cacheRet.called /\ cacheRet.after = "set"
  /\ Len(cacheRet.items) > MAX_CACHED_ITEMS

(***************************************************************************)
(* Properties of the grammar check and of the adapter                      *)
(***************************************************************************)
\* C6: for every parsed grammar response that is neither a bare array nor an
\* object with a segments array, checkGrammar resolves to an empty segment
\* list and does not reject, on the direct and on the proxied transport
C6_UnknownShapeGivesEmptySegments ==
  (gRes.done /\ ~gReq.reply.fail /\ gReq.reply.text = "json"
     /\ (gReq.transport = "direct" => gReq.hasKey)
     /\ ~IsArray(gReq.reply.value) /\ ~HasSegmentsArray(gReq.reply.value))
    => (~gRes.rejected /\ gRes.value = SegmentsObject(0))

\* C7: the adapter routes every call by the credential state at that moment:
\* proxied with no user or no stored credential, direct right after a
\* credential was stored, proxied again right after it was removed
C7_RouteFollowsCredential ==
  \A t \in Tabs :
    lastRoute[t].route # "none" =>
      lastRoute[t].route =
        (IF lastRoute[t].after = "set" THEN "direct" ELSE "proxy")

\* a call went direct, the credential was removed, the next call was proxied
C7_Witness ==
  \E t \in Tabs :
    /\ lastRoute[t].route = "proxy"
    /\ lastRoute[t].after = "remove"
    /\ lastRoute[t].prev = "direct"


(***************************************************************************)
(* Specification: the list cache with invalidations and logouts            *)
(***************************************************************************)
NextCacheVersion ==
  \/ \E u \in Users : getCachedHistory(u)
  \/ \E u \in Users : setCachedHistory(u, 1)
  \/ \E u \in Users : invalidateHistoryCache(u)
  \/ \E t \in Tabs : clearAllCache(t)

SpecCacheVersion == InitCacheApi /\ [][NextCacheVersion]_vars

\* C11: for every user, the list-cache version counter never decreases over
\* any sequence of setCachedHistory, getCachedHistory, invalidateHistoryCache
\* and clearAllCache operations
C11_VersionNeverDecreases ==
  [][\A u \in Users :
       getCurrentVersion(localStorage', u) >= getCurrentVersion(localStorage, u)]_vars


(***************************************************************************)
(* Specification: invalidations next to stored lists and detail records    *)
(***************************************************************************)
NextCacheFrame ==
  \/ \E u \in Users : getCachedHistory(u)
  \/ \E u \in Users : setCachedHistory(u, 1)
  \/ \E u \in Users : invalidateHistoryCache(u)
  \/ \E id \in DetailIds : setCachedHistoryDetail(DetailTab, id)

SpecCacheFrame == InitCacheApi /\ [][NextCacheFrame]_vars

\* the storage keys other than key hold the same in both storages
SameExcept(before, after, key) ==
  /\ DOMAIN after \ {key} = DOMAIN before \ {key}
  /\ \A k \in DOMAIN before \ {key} : after[k] = before[k]

\* C12: invalidateHistoryCache(user) raises that user's version counter by
\* exactly one and changes nothing else: the stored list of that user, the
\* counters and lists of other users and all detail-cache entries stay
C12_InvalidateOnlyRaisesVersion ==
  [][\A u \in Users :
       invalidateHistoryCache(u) =>
         /\ getCurrentVersion(localStorage', u)
              = getCurrentVersion(localStorage, u) + 1
         /\ SameExcept(localStorage, localStorage', getVersionKey(u))
         /\ sessionStorage' = sessionStorage]_vars

\* a user's list was invalidated while lists of both users and a detail
\* record were stored
C12_Witness ==
  /\ lastMut["u1"] = "set_invalidate"
  /\ hasItem(localStorage, getCacheKey("u1", "history"))
  /\ hasItem(localStorage, getCacheKey("u2", "history"))
  /\ DOMAIN sessionStorage[DetailTab] # {}


\* C13: whenever a history entry of a user has been deleted successfully,
\* the user's list cache has been invalidated before any later read of it:
\* no later getCachedHistory returns a list that still holds the entry
C13_DeletedEntryNotServedFromCache ==
  (cacheRet.called /\ cacheRet.hit) =>
    \A i \in 1..Len(cacheRet.data) : cacheRet.data[i].id \notin cacheRet.gone

\* C14: when the quota transaction of an incrementQuota call failed (the store
\* refused every attempt, or could not be reached), the call rejected to its
\* caller and dispatched no quotaUpdated event.
C14_FailedTransactionRejectsWithoutEvent ==
  \A t \in Tabs :
    incOutcome[t] \in {"exhausted", "unavailable"} =>
      incRejected[t] /\ ~quotaEvents[t]

C14_Witness ==
  \E t \in Tabs :
    /\ incOutcome[t] = "exhausted"
    /\ incRejected[t]
    /\ \E s \in Tabs : incOutcome[s] = "ok" /\ quotaEvents[s]

(***************************************************************************)
(* Quota reads in a page where users sign out and in                       *)
(***************************************************************************)
InitSwitch ==
  /\ localStorage = EmptyStorage
  /\ QuotaStart(SameUser, DocsWith(1), "none", "idle")
  /\ CacheAtRest /\ HistoryAtRest /\ GrammarAtRest /\ RouteAtRest /\ StatsAtRest /\ ServicesAtRest

\* the tab whose user signs out and in
SwitchTab == 1

NextSwitch ==
  \/ DayTick
  \/ signOutEffect(SwitchTab)
  \/ \E u \in Users : signInEffect(SwitchTab, u)
  \/ incrementQuotaLate(SwitchTab)
  \/ incrementQuotaLateError(SwitchTab)
  \/ InitializeQuotaRead(SwitchTab)
  \/ InitializeQuotaWrite(SwitchTab)
  \/ InitializeQuotaError(SwitchTab)
  \/ getQuotaUsed(SwitchTab)
  \/ getQuotaUsedRead(SwitchTab)
  \/ getQuotaUsedReset(SwitchTab)
  \/ getQuotaUsedError(SwitchTab)
  \/ incrementQuota(SwitchTab)
  \/ incrementQuotaRead(SwitchTab)
  \/ incrementQuotaCommit(SwitchTab)
  \/ incrementQuotaConflict(SwitchTab)
  \/ incrementQuotaError(SwitchTab)

SpecSwitch == InitSwitch /\ [][NextSwitch]_vars

\* C15: a getQuotaUsed call whose store read fails resolves (it does not
\* reject) to the value cached for the user it was called for, and to 0 when
\* the cache holds nothing for that user.
C15_FailedReadFallsBackToOwnCache ==
  [][\A t \in Tabs :
       getQuotaUsedError(t) =>
         /\ quotaRet'[t].called
         /\ quotaRet'[t].val =
              IF CacheHit(t, currentUser[t]) THEN quotaCache[t].used ELSE 0]_vars

(***************************************************************************)
(* Specification: canMakeRequest as handleGenerate calls it, with the      *)
(* credential set and removed in the settings dialog meanwhile             *)
(***************************************************************************)
InitRequest ==
  /\ localStorage = EmptyStorage
  /\ \E used \in 0..MAX_DEFAULT_QUOTA : QuotaAtRest(SameUser, DocsWith(used))
  /\ CacheAtRest /\ HistoryAtRest /\ GrammarAtRest /\ RouteAtRest /\ StatsAtRest /\ ServicesAtRest

\* the tab the requests are made in; the other tabs change the credential
RequestTab == 1

NextRequest ==
  \/ DayTick
  \/ \E t \in Tabs, k \in Credentials : setUserApiKey(t, k)
  \/ \E t \in Tabs : removeUserApiKey(t)
  \/ handleGenerate(RequestTab)
  \/ getQuotaUsedRead(RequestTab)
  \/ getQuotaUsedReset(RequestTab)
  \/ getQuotaUsedError(RequestTab)
  \/ handleGenerateDone(RequestTab)
  \/ handleGenerateFailed(RequestTab)
  \/ incrementQuotaRead(RequestTab)
  \/ incrementQuotaCommit(RequestTab)
  \/ incrementQuotaError(RequestTab)

SpecRequest == InitRequest /\ [][NextRequest]_vars

\* C16: canMakeRequest, whose result decides whether handleGenerate goes on to
\* generate, is true when a credential is stored for the user at the call; for
\* a user without one it is true exactly when the cap minus the value
\* getQuotaUsed resolved to is greater than 0.
C16_CanMakeRequest ==
  [][\A t \in Tabs :
       LET stored == hasItem(localStorage, ApiKeyKey(currentUser[t]))
           allowed == pc'[t] = "gen"
           remaining == MAX_DEFAULT_QUOTA - quotaRet'[t].val
       IN /\ (handleGenerate(t) /\ stored) => allowed
          /\ (handleGenerate(t) /\ ~stored /\ pc'[t] # "get") =>
               /\ quotaRet'[t].called
               /\ allowed = (remaining > 0)
          /\ (/\ op[t] = "generate" /\ pc[t] \in {"get", "write"}
              /\ pc'[t] \notin {"get", "write"}) =>
               /\ quotaRet'[t].called
               /\ allowed = (remaining > 0)]_vars

C16_Witness ==
  /\ pc[RequestTab] = "gen"
  /\ hasItem(localStorage, ApiKeyKey(currentUser[RequestTab]))
  /\ userDoc[currentUser[RequestTab]].quotaUsed >= MAX_DEFAULT_QUOTA
  /\ quotaRet[RequestTab].called
  /\ quotaRet[RequestTab].val = MAX_DEFAULT_QUOTA

(***************************************************************************)
(* Specification: statistics calls one after another, with store failures  *)
(* and resynchronisations from the history                                 *)
(***************************************************************************)
\* band scores the entries carry, in half bands: 6.5 and 8.5
BandScores == {13, 17}

TaskTypes == {"Task 1", "Task 2"}

RestExceptStats ==
  /\ localStorage = EmptyStorage
  /\ QuotaAtRest(SameUser, NoDocs)
  /\ CacheAtRest /\ HistoryAtRest /\ GrammarAtRest /\ RouteAtRest
  /\ ServicesAtRest

InitStats ==
  /\ RestExceptStats
  /\ \E denied \in BOOLEAN : StatsStart(denied)

NextStats ==
  \/ \E taskType \in TaskTypes, bandScore \in BandScores :
       updateUserStats(taskType, bandScore, MaxEntries)
  \/ saveHistoryUngraded("Task 2", MaxEntries)
  \/ updateUserStatsRead
  \/ updateUserStatsWrite
  \/ updateUserStatsError
  \/ initializeUserStatsRead
  \/ initializeUserStatsWrite
  \/ initializeUserStatsError
  \/ \E order \in TurnedOrders(Len(attempts)) :
       \* every order of up to three documents
       syncUserStatsFromHistory(order)

SpecStats == InitStats /\ [][NextStats]_vars

\* the updateDoc of a pending updateUserStats resolves: the step of
\* updateUserStatsWrite as the position of the call shows it
updateDocResolves == statsPc = "update" /\ statsPc' = "resolved"

\* the refused setDoc of initializeUserStats rejects
setDocRefused == createDenied /\ statsPc = "init_set" /\ initializeUserStatsError

\* the store answers every call, and rejects only the creates it refuses
NextStatsLive ==
  \/ \E taskType \in TaskTypes, bandScore \in BandScores :
       updateUserStats(taskType, bandScore, MaxEntries)
  \/ updateUserStatsRead
  \/ updateUserStatsWrite
  \/ initializeUserStatsRead
  \/ initializeUserStatsWrite
  \/ setDocRefused

\* every promise of the store settles: a pending getDoc, setDoc or updateDoc
\* does not stay pending for ever
SpecStatsLive ==
  /\ InitStats /\ [][NextStatsLive]_vars
  /\ WF_vars(updateUserStatsRead)
  /\ WF_statsPc(updateDocResolves)
  /\ WF_vars(initializeUserStatsRead)
  /\ WF_vars(initializeUserStatsWrite)
  /\ WF_vars(setDocRefused)

\* C17: an updateUserStats call for a user without a statistics record
\* terminates whatever the store does, a store that refuses the create
\* included.
C17_UpdateWithoutRecordTerminates ==
  (statsPc = "get" /\ ~statsDoc.exists) ~> StatsSettled

\* C18: after statistics calls that ran one after another, each average times
\* its attempt count equals the sum of the scores recorded, overall and for
\* Task 1 and Task 2 (exact arithmetic).
C18_AverageTimesCountIsSum ==
  StatsSettled =>
    /\ statsDoc.totalAttempts = Len(recorded)
    /\ statsDoc.task1Attempts = Len(OfTask1(recorded))
    /\ statsDoc.task2Attempts = Len(OfTask2(recorded))
    /\ statsExact.avgBandScore.n * statsDoc.totalAttempts
         = SumScores(recorded) * statsExact.avgBandScore.d
    /\ statsExact.avgTask1Score.n * statsDoc.task1Attempts
         = SumScores(OfTask1(recorded)) * statsExact.avgTask1Score.d
    /\ statsExact.avgTask2Score.n * statsDoc.task2Attempts
         = SumScores(OfTask2(recorded)) * statsExact.avgTask2Score.d

C18_Witness ==
  /\ statsPc = "resolved"
  /\ Len(recorded) = MaxEntries
  /\ statsDoc.task1Attempts = 2
  /\ statsDoc.task2Attempts = 1
  /\ statsExact.avgTask1Score = Rat(15, 1)
  /\ statsExact.avgBandScore = Rat(43, 3)

\* C20: after every updateUserStats and every recalculateUserStats,
\* progressTrend holds at most 10 scores: the most recent graded scores the
\* record accounts for, in the order the attempts were made.
C20_TrendIsLatestScoresInOrder ==
  StatsSettled =>
    /\ Len(statsDoc.progressTrend) <= TREND_LENGTH
    /\ statsDoc.progressTrend = LastN(Scores(recorded), TREND_LENGTH)

(***************************************************************************)
(* Specification: graded entries folded in one at a time from no record,   *)
(* to be compared with a recalculation over the same entries               *)
(***************************************************************************)
InitFold ==
  /\ RestExceptStats
  /\ StatsStart(FALSE)

\* the entries folded: a Task 1 answer graded 6.5 or a Task 2 answer graded 8.5
NextFold ==
  \/ updateUserStats("Task 1", 13, MaxFold)
  \/ updateUserStats("Task 2", 17, MaxFold)
  \/ updateUserStatsRead
  \/ updateUserStatsWrite
  \/ initializeUserStatsRead
  \/ initializeUserStatsWrite

SpecFold == InitFold /\ [][NextFold]_vars

AllFolded == StatsSettled /\ recorded = attempts

SameCounts(a, b) ==
  /\ a.totalAttempts = b.totalAttempts
  /\ a.task1Attempts = b.task1Attempts
  /\ a.task2Attempts = b.task2Attempts

SameAverages(a, b) ==
  /\ a.avgBandScore = b.avgBandScore
  /\ a.avgTask1Score = b.avgTask1Score
  /\ a.avgTask2Score = b.avgTask2Score

NearAverages(a, b) ==
  /\ DblNear(a.avgBandScore, b.avgBandScore)
  /\ DblNear(a.avgTask1Score, b.avgTask1Score)
  /\ DblNear(a.avgTask2Score, b.avgTask2Score)

RestExceptServices ==
  /\ localStorage = EmptyStorage
  /\ QuotaAtRest(SameUser, DocsWith(0))
  /\ CacheAtRest /\ HistoryAtRest /\ GrammarAtRest /\ RouteAtRest
  /\ StatsAtRest

InitAdmin == RestExceptServices /\ ServicesAtRest

NextAdmin ==
  \/ Tick(MaxClock)
  \/ \E u \in Users : userStatsWritten(u)
  \/ \E skew \in 0..MaxSkew : otherSessionRecalculated(skew)
  \/ getDashboardStats
  \/ recalculateAdminStats
  \/ getDashboardStatsRead
  \/ recalculateAdminStatsScan
  \/ recalculateAdminStatsCompute
  \/ recalculateAdminStatsWrite
  \/ adminCallError

SpecAdmin == InitAdmin /\ [][NextAdmin]_vars

\* C21: a getDashboardStats call that resolves returned the adminStats/global
\* rollup it read, without reading user_stats and without writing, exactly
\* when that rollup existed and was less than 5 minutes old; in every other
\* case it computed the rollup from all user_stats documents it read, stored
\* it in adminStats/global stamped with the time of the computation, and
\* returned what it stored.
C21_FreshRollupServedElseRecomputed ==
  (adminOp = "getDashboardStats" /\ adminPc = "resolved") =>
    LET seen == adminSeen.doc
        fresh == seen.exists
                   /\ adminSeen.at - seen.data.lastUpdated < STALE_MINUTES
    IN /\ adminSeen.read
       /\ fresh =>
            /\ adminResult = seen.data
            /\ statsSnapshot = NoSnapshot
            /\ adminWritten = NoWritten
       /\ ~fresh =>
            /\ adminWritten.doc.exists
            /\ adminResult = adminWritten.doc.data
            /\ adminResult =
                 DashboardStats(statsSnapshot, adminResult.totalUsers,
                                adminResult.lastUpdated)
            /\ adminResult.lastUpdated \in adminSeen.at..adminWritten.at

\* a stale rollup (exactly 5 minutes old) was read and a recalculation over
\* two users' documents was returned
C21_Witness ==
  /\ adminOp = "getDashboardStats" /\ adminPc = "resolved"
  /\ adminSeen.doc.exists
  /\ adminSeen.at - adminSeen.doc.data.lastUpdated = STALE_MINUTES
  /\ adminResult.totalAttempts = 4
  /\ adminResult.avgBandScoreTask1 = 14
  /\ adminResult # adminSeen.doc.data

(***************************************************************************)
(* Specification: generation and evaluation calls that fail                *)
(***************************************************************************)
Operations == {"generateTask1Prompt", "generateTask2Prompt", "evaluateWriting"}

InitCalls == RestExceptServices /\ ServicesAtRest

NextCalls ==
  \/ \E operation \in Operations, failure \in Failures :
       failingCall(operation, failure)
  \/ directCallFails
  \/ handlerResponds
  \/ makeProxyRequestNotOk
  \/ makeProxyRequestThrows
  \/ proxyCallEmpty

SpecCalls == InitCalls /\ [][NextCalls]_vars

\* the taxonomy message the kind of a failure asks for
Classified(failure) ==
  IF failure.at \in {"provider", "body", "bare"}
  THEN CASE failure.status = 429 -> RateLimited
         [] failure.status \in {401, 403} -> AuthFailed
         [] failure.status = 400 -> BadRequest
         [] failure.status \in {500, 503} -> ServiceUnavailable
         [] OTHER -> Unknown
  ELSE CASE failure.at = "ratelimit" -> RateLimited
         [] failure.at \in {"token", "verify", "nokey"} -> AuthFailed
         [] failure.at \in {"fetch", "upstream"} -> NetworkError
         [] OTHER -> Unknown

\* C22: every failed generation or evaluation call, on the direct and on the
\* proxied transport, throws to its caller the taxonomy message of the kind
\* of its failure: RateLimited for 429 or an exhausted quota, AuthFailed for
\* 401, 403 or a rejected credential or token, BadRequest for 400,
\* ServiceUnavailable for 500 or 503, NetworkError for a connectivity
\* failure, Unknown for anything else.
C22_FailureSurfacesAsTaxonomyMessage ==
  callPc = "thrown" =>
    /\ surfaced \in Taxonomy
    /\ surfaced = Classified(callFailure)

\* C23: for every upstream grammar payload that is a bare array of segments or
\* an object wrapping a segments array, checkGrammar resolves on the direct
\* and on the proxied transport to the same result: an object whose segments
\* are the bare array, or the wrapped array
C23_TransportsGiveSameSegments ==
  (gRes.done /\ ~gReq.reply.fail /\ gReq.reply.text = "json"
     /\ (gReq.transport = "direct" => gReq.hasKey)
     /\ (IsArray(gReq.reply.value) \/ HasSegmentsArray(gReq.reply.value)))
    => /\ ~gRes.rejected
       /\ gRes.value = proxyCheckGrammar(gReq.reply).value
       /\ gRes.value = directCheckGrammar(TRUE, gReq.reply).value
       /\ gRes.value = (IF IsArray(gReq.reply.value)
                        THEN SegmentsObject(gReq.reply.value.len)
                        ELSE gReq.reply.value)

(***************************************************************************)
(* Specification: credentials stored, read and removed for any user id     *)
(***************************************************************************)
\* user ids: the two short ones and one whose keyHash is negative
UserIds == Users \cup {LongUid}

\* credentials: "AIz", "-", "AIza", "key1" and one with a character beyond
\* Latin-1
CredentialStrings ==
  Credentials \cup {<<65, 73, 122, 97>>, <<107, 101, 121, 49>>, <<1082, 49>>}

InitCredential == RestExceptServices /\ ServicesAtRest

NextCredential ==
  \/ \E userId \in UserIds, apiKey \in CredentialStrings :
       storeCredential(userId, apiKey)
  \/ readCredential
  \/ \E userId \in UserIds : dropCredential(userId)

SpecCredential == InitCredential /\ [][NextCredential]_vars

\* C24: getUserApiKey(u) called after setUserApiKey(u, v) returns exactly v,
\* for every credential string v and every user id u
C24_StoredCredentialReadsBack ==
  (credStored /\ credRead.called) => credRead.val = credValue

\* C25: what setUserApiKey(u, v) leaves in browser storage is never equal to
\* the plaintext v, for every non-empty credential string v and every user
\* id u
C25_StoredCredentialIsNotPlaintext ==
  (credStored /\ Len(credValue) > 0) =>
    getItem(localStorage, ApiKeyKey(credUid)) # credValue

(***************************************************************************)
(* Specification: requests of two users at the proxy while time passes     *)
(***************************************************************************)
\* the clock advances by a millisecond or by a whole window
ServerAdvances == {1, WINDOW_MS}

InitGate == RestExceptServices /\ ServicesAtRest

NextGate ==
  \/ \E userId \in Users : handlerChecksRateLimit(userId, MaxForwarded)
  \/ \E ms \in ServerAdvances : serverTimePasses(ms, MaxServerSteps)

SpecGate == InitGate /\ [][NextGate]_vars

\* the requests of the log let through from time start on and before
\* start + length
ForwardedWithin(log, start, length) ==
  Cardinality({i \in 1..Len(log) :
                 log[i] >= start /\ log[i] < start + length})

\* C26: for every user and every interval of 60 seconds, wherever it starts,
\* the proxy lets at most 10 of the user's requests through to the provider
\* (every further request in the interval is answered with 429)
C26_AtMostTenForwardedInAnyMinute ==
  \A userId \in Users : \A i \in 1..Len(forwarded[userId]) :
    ForwardedWithin(forwarded[userId], forwarded[userId][i], WINDOW_MS)
      <= MAX_REQUESTS

(***************************************************************************)
(* Specification: a throttled function called at any time                  *)
(***************************************************************************)
InitThrottle == RestExceptServices /\ ServicesAtRest

NextThrottle ==
  \/ throttled(ThrottleDelay)
  \/ throttleTimerFires
  \/ throttleTimePasses(MaxThrottleTime)

SpecThrottle == InitThrottle /\ [][NextThrottle]_vars

\* C27: the function wrapped by throttle(func, delay) is never invoked twice
\* less than delay milliseconds apart, whenever the wrapper is called and
\* whenever the pending timer runs
C27_InvocationsAtLeastDelayApart ==
  Len(invokedAt) = 2 => invokedAt[2] - invokedAt[1] >= ThrottleDelay

(***************************************************************************)
(* Specification: one RateLimiter asked for two keys while time passes     *)
(***************************************************************************)
\* the clock is read in the last millisecond of a window and in the first of
\* the next one, in turn
LimiterAdvance(steps) ==
  IF steps % 2 = 0 THEN aiGenerationLimiter.windowMs - 1 ELSE 1

InitLimiter == RestExceptServices /\ ServicesAtRest

NextLimiter ==
  \/ \E key \in Users : isAllowedCalled(key, MaxGranted)
  \/ limiterTimePasses(LimiterAdvance(limSteps), MaxLimiterSteps)

SpecLimiter == InitLimiter /\ [][NextLimiter]_vars

\* the true answers of the log from time start on and before start + length
GrantedWithin(log, start, length) ==
  Cardinality({i \in 1..Len(log) :
                 log[i] >= start /\ log[i] < start + length})

\* in every interval shorter than windowMs a key is answered true at most
\* maxRequests times
GrantedWithinLimit ==
  \A key \in Users : \A i \in 1..Len(granted[key]) :
    GrantedWithin(granted[key], granted[key][i], aiGenerationLimiter.windowMs)
      <= aiGenerationLimiter.maxRequests

\* what isAllowed(key) would answer now
WouldAllow(map, key, now) ==
  isAllowed(aiGenerationLimiter, map, key, now).allowed

\* a call for one key leaves the timestamps and the answer of another key
OtherKeysUntouched ==
  \A key \in Users :
    (limNow' = limNow /\ key # limKey') =>
      /\ requests'[key] = requests[key]
      /\ WouldAllow(requests', key, limNow') = WouldAllow(requests, key, limNow)

\* C28: for every key and every interval shorter than windowMs isAllowed(key)
\* returns true at most maxRequests times, and a call for one key never
\* changes the answer for another key
C28_LimitPerKeyAndWindow ==
  [](GrantedWithinLimit) /\ [][OtherKeysUntouched]_vars

\* u1 was answered true ten times and then false within one window, and u2
\* is answered true after that, in the window's last millisecond
C28_Witness ==
  /\ Len(granted["u1"]) = aiGenerationLimiter.maxRequests
  /\ limAnswer["u1"] = [called |-> TRUE, allowed |-> FALSE]
  /\ limKey = "u2"
  /\ limAnswer["u2"].allowed
  /\ limNow = aiGenerationLimiter.windowMs - 1
(***************************************************************************)
(* Specification: one session pages through a history of eleven entries    *)
(***************************************************************************)
InitPaging ==
  /\ RestExceptServices
  /\ AdminAtRest /\ CallsAtRest /\ CredentialAtRest /\ TimingAtRest
  /\ CallerAtRest
  /\ PagingStart(PAGE_SIZE + 1)

NextPaging ==
  \/ \E loadMore \in BOOLEAN, outcome \in QueryOutcomes :
       pagedLoadUserHistory(loadMore, outcome, MaxShown)
  \/ pagedAddToHistory(MaxSaves)
  \/ \E index \in 1..MaxShown :
       pagedDeleteHistory(index, MaxDeletes)
  \/ pageReloaded

SpecPaging == InitPaging /\ [][NextPaging]_vars

\* C29: in the App's history list no entry id appears twice, after any
\* sequence of first-page loads, load-more actions, saves and deletes
C29_NoIdTwiceInHistoryList ==
  \A i, j \in 1..Len(pageHistory) :
    i # j => pageHistory[i] # pageHistory[j]

(***************************************************************************)
(* The in-memory quota cache after a failed increment                      *)
(***************************************************************************)
InitObserved == InitIncrement

NextObserved ==
  \/ \E t \in Tabs : incrementQuotaObserved(t)
  \/ \E t \in Tabs : incrementQuotaRead(t)
  \/ \E t \in Tabs : incrementQuotaCommit(t)
  \/ \E t \in Tabs : incrementQuotaConflict(t)
  \/ \E t \in Tabs : incrementQuotaError(t)

SpecObserved == InitObserved /\ [][NextObserved]_vars

\* C30: if incrementQuota rejects, the in-memory quota cache holds the same
\* value as before the call (a failed increment does not make the cached
\* count differ from the stored quotaUsed)
C30_RejectedIncrementLeavesCache ==
  \A t \in Tabs : incRejected[t] => quotaCache[t] = cacheBefore[t]

=============================================================================
